---- MODULE Spec2Model ----
(***************************************************************************)
(* Model of the garm AWS provider: the provider facade (create, delete,    *)
(* get, list, stop, start, removeAll), the EC2 client adapter below it,    *)
(* the runner-spec builder, and the EC2 instance lifecycle the facade      *)
(* drives.                                                                 *)
(*                                                                         *)
(* Strings that the code inspects character by character (instance names   *)
(* and IDs, subnet IDs) are sequences of one-character strings; every      *)
(* other string is a TLA+ string.  A Go pointer is a sequence of length 0  *)
(* (nil) or 1 (the pointee).                                               *)
(***************************************************************************)
EXTENDS Integers, Sequences, FiniteSets, TLC

VARIABLES cloud, controllerID, last

vars == <<cloud, controllerID, last>>

----------------------------------------------------------------------------
(* Bounds *)

MaxInstances == 2

----------------------------------------------------------------------------
(* Go values *)

NilPtr == <<>>
Ptr(v) == <<v>>
IsNil(p) == Len(p) = 0
Deref(p) == p[1]

EmptyStr == <<>>

RECURSIVE HasPrefixFrom(_, _, _)
HasPrefixFrom(s, prefix, i) ==
    IF i > Len(prefix) THEN TRUE
    ELSE IF i > Len(s) THEN FALSE
    ELSE IF s[i] # prefix[i] THEN FALSE
    ELSE HasPrefixFrom(s, prefix, i + 1)

HasPrefix(s, prefix) == HasPrefixFrom(s, prefix, 1)

IdPrefix == <<"i", "-">>

Digit == <<"1", "2", "3", "4", "5", "6", "7", "8", "9">>
InstanceIdOf(n) == IdPrefix \o <<Digit[n]>>

(* Errors: kind is what errors.Is / errors.As can still see through the    *)
(* wrapping; msg is the formatted text, a sequence of literal pieces and   *)
(* formatted arguments.                                                    *)
Lit(s) == [t |-> "lit", s |-> s, v |-> EmptyStr]
Arg(v) == [t |-> "arg", s |-> "", v |-> v]
ArgS(s) == [t |-> "str", s |-> s, v |-> EmptyStr]
ArgSet(e) == [t |-> "set", s |-> "", v |-> e]

NoErr == [kind |-> "nil", msg |-> <<>>]
Errorf(kind, msg) == [kind |-> kind, msg |-> msg]
PlainErr(text) == Errorf("plain", <<Lit(text)>>)
WrapErr(text, err) == Errorf(err.kind, <<Lit(text)>> \o err.msg)
PanicErr == Errorf("panic", <<Lit("nil pointer dereference")>>)

IsErr(err) == err.kind # "nil"
ErrIsNotFound(err) == err.kind = "ErrNotFound"
ErrNotFound == Errorf("ErrNotFound", <<Lit("not found")>>)

MsgHasText(err, s) ==
    \E i \in 1..Len(err.msg) : err.msg[i].t \in {"lit", "str"} /\ err.msg[i].s = s
MsgHasArg(err, v) == \E i \in 1..Len(err.msg) : err.msg[i].t = "arg" /\ err.msg[i].v = v

----------------------------------------------------------------------------
(* EC2 instance records and the host-facing instance *)

InstanceStateNames ==
    {"pending", "running", "shutting-down", "terminated", "stopping", "stopped"}

Tag(k, v) == [Key |-> Ptr(k), Value |-> Ptr(v)]

ZeroInstance == [InstanceId |-> NilPtr, State |-> NilPtr, Tags |-> <<>>]

ZeroProviderInstance ==
    [ProviderID |-> EmptyStr, Name |-> EmptyStr, OSType |-> "", OSArch |-> "", Status |-> ""]

InstanceRunning == "running"
InstanceStopped == "stopped"
InstanceStatusUnknown == "unknown"

StatusOfStateMutant(name) ==
    CASE name \in {"running", "shutting-down"} -> InstanceRunning
      [] name \in {"stopped", "terminated", "stopping"} -> InstanceStopped
      [] OTHER -> InstanceStatusUnknown

StatusOfState(name) ==
    CASE name \in {"running", "shutting-down", "stopping"} -> InstanceRunning
      [] name \in {"stopped", "terminated"} -> InstanceStopped
      [] OTHER -> InstanceStatusUnknown

RECURSIVE ApplyTags(_, _, _)
ApplyTags(details, tags, i) ==
    IF i > Len(tags) THEN details
    ELSE LET tag == tags[i] IN
         IF IsNil(tag.Key) \/ IsNil(tag.Value) THEN ApplyTags(details, tags, i + 1)
         ELSE LET k == Deref(tag.Key)
                  v == Deref(tag.Value)
                  next == CASE k = "Name" -> [details EXCEPT !.Name = v]
                            [] k = "OSType" -> [details EXCEPT !.OSType = v]
                            [] k = "OSArch" -> [details EXCEPT !.OSArch = v]
                            [] OTHER -> details
              IN ApplyTags(next, tags, i + 1)

(* A record without state information makes the conversion dereference a   *)
(* nil pointer: the Go runtime panics.                                     *)
AwsInstanceToParamsInstance(ec2Instance) ==
    IF IsNil(ec2Instance.InstanceId)
    THEN [val |-> ZeroProviderInstance, err |-> PlainErr("instance ID is nil")]
    ELSE LET details == ApplyTags([ZeroProviderInstance EXCEPT
                                      !.ProviderID = Deref(ec2Instance.InstanceId)],
                                  ec2Instance.Tags, 1)
         IN IF IsNil(ec2Instance.State)
            THEN [val |-> ZeroProviderInstance, err |-> PanicErr]
            ELSE [val |-> [details EXCEPT
                              !.Status = StatusOfState(Deref(ec2Instance.State).Name)],
                  err |-> NoErr]

----------------------------------------------------------------------------
(* The EC2 API as the adapter sees it.  A world is the cloud, the log of   *)
(* API calls issued so far by the running operation, and the environment's *)
(* choice of which of those calls fail for reasons outside the program     *)
(* (network, credentials, throttling).  cloud[n] is the instance with ID   *)
(* i-<n>, or ZeroInstance once EC2 has forgotten it.  InstanceId is a      *)
(* pointer in the SDK's reply type and the program tests it for nil: noId  *)
(* is the position of the record of a DescribeInstances reply that comes   *)
(* back without its ID (0: every record has its ID).                       *)

ApiError == Errorf("ApiError", <<Lit("RequestError")>>)
ApiNotFound == Errorf("ApiNotFound", <<Lit("InvalidInstanceID.NotFound")>>)
ApiIncorrectState == Errorf("ApiError", <<Lit("IncorrectInstanceState")>>)
ApiMalformed == Errorf("ApiError", <<Lit("InvalidInstanceID.Malformed")>>)

World(c, fail) == [cloud |-> c, calls |-> <<>>, fail |-> fail, noId |-> 0]

WorldNoId(c, fail, k) == [World(c, fail) EXCEPT !.noId = k]

CallFails(w) == LET k == Len(w.calls) + 1 IN k <= Len(w.fail) /\ w.fail[k]

Logged(w, api, input, out, err) ==
    [w EXCEPT !.calls = Append(@, [api |-> api, input |-> input, out |-> out, err |-> err])]

RECURSIVE IndexOfIdFrom(_, _, _)
IndexOfIdFrom(c, id, n) ==
    IF n > Len(c) THEN 0
    ELSE IF c[n].InstanceId = Ptr(id) THEN n
    ELSE IndexOfIdFrom(c, id, n + 1)

IndexOfId(c, id) == IndexOfIdFrom(c, id, 1)

StateOf(inst) == Deref(inst.State).Name

SetState(c, n, name) == [c EXCEPT ![n].State = Ptr([Name |-> name])]

RECURSIVE TagValueFrom(_, _, _)
TagValueFrom(tags, key, i) ==
    IF i > Len(tags) THEN NilPtr
    ELSE IF tags[i].Key = Ptr(key) THEN tags[i].Value
    ELSE TagValueFrom(tags, key, i + 1)

TagValue(inst, key) == TagValueFrom(inst.Tags, key, 1)

InSeq(v, s) == \E i \in 1..Len(s) : s[i] = v

StateFilterName == "instance-state-name"

TagKeyOfFilter(name) ==
    CASE name = "tag:GARM_CONTROLLER_ID" -> "GARM_CONTROLLER_ID"
      [] name = "tag:GARM_POOL_ID" -> "GARM_POOL_ID"
      [] name = "tag:Name" -> "Name"

MatchesFilter(inst, f) ==
    IF Deref(f.Name) = StateFilterName
    THEN InSeq(StateOf(inst), f.Values)
    ELSE LET tv == TagValue(inst, TagKeyOfFilter(Deref(f.Name)))
         IN ~IsNil(tv) /\ InSeq(Deref(tv), f.Values)

MatchesInput(inst, input) ==
    /\ ~IsNil(inst.InstanceId)
    /\ Len(input.InstanceIds) > 0 => InSeq(Deref(inst.InstanceId), input.InstanceIds)
    /\ \A i \in 1..Len(input.Filters) : MatchesFilter(inst, input.Filters[i])

(* One reservation per launch request, in launch order. *)
RECURSIVE ReservationsFrom(_, _, _)
ReservationsFrom(c, input, n) ==
    IF n > Len(c) THEN <<>>
    ELSE (IF MatchesInput(c[n], input) THEN <<[Instances |-> <<c[n]>>]>> ELSE <<>>)
         \o ReservationsFrom(c, input, n + 1)

WithoutIdAt(reservations, k) ==
    [i \in 1..Len(reservations) |->
        IF i = k
        THEN [Instances |-> <<[reservations[i].Instances[1] EXCEPT !.InstanceId = NilPtr]>>]
        ELSE reservations[i]]

Reply(w, api, input, c, out, err) ==
    [w |-> [Logged(w, api, input, out, err) EXCEPT !.cloud = c], out |-> out, err |-> err]

EC2DescribeInstances(w, input) ==
    LET Re(out, err) == Reply(w, "DescribeInstances", input, w.cloud, out, err) IN
    IF CallFails(w) THEN Re(<<>>, ApiError)
    ELSE IF \E i \in 1..Len(input.InstanceIds) : ~HasPrefix(input.InstanceIds[i], IdPrefix)
    THEN Re(<<>>, ApiMalformed)
    ELSE IF \E i \in 1..Len(input.InstanceIds) : IndexOfId(w.cloud, input.InstanceIds[i]) = 0
    THEN Re(<<>>, ApiNotFound)
    ELSE Re(WithoutIdAt(ReservationsFrom(w.cloud, input, 1), w.noId), NoErr)

EC2RunInstances(w, input) ==
    LET Re(c, out, err) == Reply(w, "RunInstances", input, c, out, err) IN
    IF CallFails(w) THEN Re(w.cloud, <<>>, ApiError)
    ELSE LET n == Len(w.cloud) + 1
             inst == [InstanceId |-> Ptr(InstanceIdOf(n)),
                      State |-> Ptr([Name |-> "pending"]),
                      Tags |-> input.TagSpecifications[1].Tags]
         IN Re(Append(w.cloud, inst), <<inst>>, NoErr)

TerminateTarget ==
    [st \in InstanceStateNames |-> IF st = "terminated" THEN "terminated" ELSE "shutting-down"]

StopTarget ==
    [st \in InstanceStateNames |->
        CASE st = "running" -> "stopping"
          [] st \in {"stopping", "stopped"} -> st
          [] OTHER -> "refused"]

StartTarget ==
    [st \in InstanceStateNames |->
        CASE st = "stopped" -> "pending"
          [] st \in {"pending", "running"} -> st
          [] OTHER -> "refused"]

(* A lifecycle call moves instance n to the state target gives for its     *)
(* current state, or is refused with an error.                             *)
EC2Lifecycle(w, api, input, target) ==
    LET Re(c, err) == Reply(w, api, input, c, <<>>, err)
        n == IndexOfId(w.cloud, input.InstanceIds[1])
    IN IF CallFails(w) THEN Re(w.cloud, ApiError)
       ELSE IF ~HasPrefix(input.InstanceIds[1], IdPrefix) THEN Re(w.cloud, ApiMalformed)
       ELSE IF n = 0 THEN Re(w.cloud, ApiNotFound)
       ELSE IF target[StateOf(w.cloud[n])] = "refused" THEN Re(w.cloud, ApiIncorrectState)
       ELSE Re(SetState(w.cloud, n, target[StateOf(w.cloud[n])]), NoErr)

EC2TerminateInstances(w, input) == EC2Lifecycle(w, "TerminateInstances", input, TerminateTarget)
EC2StopInstances(w, input) == EC2Lifecycle(w, "StopInstances", input, StopTarget)
EC2StartInstances(w, input) == EC2Lifecycle(w, "StartInstances", input, StartTarget)

----------------------------------------------------------------------------
(* Extra specs: the raw JSON, its schema, and the decoded struct.          *)
(* A raw document is [kind |-> "invalid"] (not parseable as JSON, which    *)
(* includes the empty document) or [kind |-> "object", obj |-> members],   *)
(* members being a record from key to JSON value [type, v].                *)

JStr(v) == [type |-> "string", v |-> v, wide |-> FALSE]
JInt(v) == [type |-> "integer", v |-> v, wide |-> FALSE]
JBool(v) == [type |-> "boolean", v |-> v, wide |-> FALSE]
JArr(v) == [type |-> "array", v |-> v, wide |-> FALSE]
JObject(members) == [kind |-> "object", obj |-> members]
JInvalid == [kind |-> "invalid"]
NoMembers == [k \in {} |-> JInt(0)]

SubnetPrefix == <<"s", "u", "b", "n", "e", "t", "-">>
HexDigits == {"0", "1", "2", "3", "4", "5", "6", "7", "8", "9",
              "a", "b", "c", "d", "e", "f", "A", "B", "C", "D", "E", "F"}
SubnetHexLen == 17

MatchesSubnetPattern(str) ==
    /\ Len(str) = Len(SubnetPrefix) + SubnetHexLen
    /\ HasPrefix(str, SubnetPrefix)
    /\ \A i \in (Len(SubnetPrefix) + 1)..Len(str) : str[i] \in HexDigits

VolumeTypeEnum == {"gp2", "gp3", "io1", "io2", "st1", "sc1", "standard"}
ThroughputMin == 125
ThroughputMax == 1000

SchemaTypes ==
    [subnet_id |-> "string", ssh_key_name |-> "string", iops |-> "integer",
     throughput |-> "integer", volume_size |-> "integer", volume_type |-> "string",
     security_group_ids |-> "array", disable_updates |-> "boolean",
     enable_boot_debug |-> "boolean", extra_packages |-> "array",
     runner_install_template |-> "string", extra_context |-> "object",
     pre_install_scripts |-> "object"]

(* The schema errors of one member; a value of the wrong type is not       *)
(* checked any further.                                                    *)
MemberErrorsMutant(key, val) ==
    IF key \notin DOMAIN SchemaTypes THEN {"additional_property_not_allowed"}
    ELSE IF val.type # SchemaTypes[key] THEN {"invalid_type"}
    ELSE CASE key = "subnet_id" ->
                IF MatchesSubnetPattern(val.v) THEN {} ELSE {"pattern"}
           [] key = "throughput" ->
                (IF val.v < ThroughputMin THEN {"number_gte"} ELSE {})
                \cup (IF val.v > ThroughputMax THEN {"number_lte"} ELSE {})
           [] key \in {"security_group_ids", "extra_packages"} ->
                IF \A i \in 1..Len(val.v) : val.v[i].type = "string"
                THEN {} ELSE {"invalid_type"}
           [] OTHER -> {}

MemberErrors(key, val) ==
    IF key \notin DOMAIN SchemaTypes THEN {"additional_property_not_allowed"}
    ELSE IF val.type # SchemaTypes[key] THEN {"invalid_type"}
    ELSE CASE key = "subnet_id" ->
                IF MatchesSubnetPattern(val.v) THEN {} ELSE {"pattern"}
           [] key = "volume_type" ->
                IF val.v \in VolumeTypeEnum THEN {} ELSE {"enum"}
           [] key = "throughput" ->
                (IF val.v < ThroughputMin THEN {"number_gte"} ELSE {})
                \cup (IF val.v > ThroughputMax THEN {"number_lte"} ELSE {})
           [] key \in {"security_group_ids", "extra_packages"} ->
                IF \A i \in 1..Len(val.v) : val.v[i].type = "string"
                THEN {} ELSE {"invalid_type"}
           [] OTHER -> {}

SchemaErrors(raw) ==
    UNION { MemberErrors(k, raw.obj[k]) : k \in DOMAIN raw.obj }

jsonSchemaValidation(raw) ==
    IF raw.kind # "object"
    THEN Errorf("plain", <<Lit("failed to validate schema")>>)
    ELSE IF SchemaErrors(raw) # {}
    THEN Errorf("plain", <<Lit("schema validation failed")>>
                          \o <<ArgSet(SchemaErrors(raw))>>)
    ELSE NoErr

ZeroExtraSpecs ==
    [SubnetID |-> NilPtr, SSHKeyName |-> NilPtr, Iops |-> NilPtr, Throughput |-> NilPtr,
     VolumeSize |-> NilPtr, VolumeType |-> "", SecurityGroupIds |-> <<>>,
     DisableUpdates |-> NilPtr, EnableBootDebug |-> NilPtr, ExtraPackages |-> <<>>]

Has(obj, key) == key \in DOMAIN obj
PtrField(obj, key) == IF Has(obj, key) THEN Ptr(obj[key].v) ELSE NilPtr
StringsOf(arr) == [i \in 1..Len(arr) |-> arr[i].v]

(* json.Unmarshal of a schema-valid document into extraSpecs.  It fails    *)
(* when a member does not fit its Go type; after the schema check that is  *)
(* an integer beyond int32, which is marked by wide.                       *)
Unmarshal(obj) ==
    IF \E k \in {"iops", "throughput", "volume_size"} : Has(obj, k) /\ obj[k].wide
    THEN [val |-> ZeroExtraSpecs, err |-> Errorf("plain", <<Lit("cannot unmarshal number")>>)]
    ELSE [val |-> [SubnetID |-> PtrField(obj, "subnet_id"),
                   SSHKeyName |-> PtrField(obj, "ssh_key_name"),
                   Iops |-> PtrField(obj, "iops"),
                   Throughput |-> PtrField(obj, "throughput"),
                   VolumeSize |-> PtrField(obj, "volume_size"),
                   VolumeType |-> IF Has(obj, "volume_type") THEN obj["volume_type"].v ELSE "",
                   SecurityGroupIds |-> IF Has(obj, "security_group_ids")
                                        THEN StringsOf(obj["security_group_ids"].v) ELSE <<>>,
                   DisableUpdates |-> PtrField(obj, "disable_updates"),
                   EnableBootDebug |-> PtrField(obj, "enable_boot_debug"),
                   ExtraPackages |-> IF Has(obj, "extra_packages")
                                     THEN StringsOf(obj["extra_packages"].v) ELSE <<>>],
          err |-> NoErr]

newExtraSpecsFromBootstrapData(data) ==
    LET verr == jsonSchemaValidation(data.ExtraSpecs) IN
    IF IsErr(verr)
    THEN [val |-> NilPtr, err |-> WrapErr("failed to validate extra specs", verr)]
    ELSE LET u == Unmarshal(data.ExtraSpecs.obj) IN
         IF IsErr(u.err)
         THEN [val |-> NilPtr, err |-> WrapErr("failed to unmarshal extra specs", u.err)]
         ELSE [val |-> Ptr(u.val), err |-> NoErr]

----------------------------------------------------------------------------
(* Runner spec *)

SubnetCfg == SubnetPrefix \o <<"1", "2", "3", "4", "5", "6">>

(* The provider configuration, as NewConfig accepts it: region and subnet  *)
(* are both non-empty.                                                     *)
Cfg == [Region |-> "us-east-1", SubnetID |-> SubnetCfg]

IopsIo1Min == 100
IopsIo1Max == 64000
IopsIo2Min == 100
IopsIo2Max == 256000
IopsGp3Min == 3000
IopsGp3Max == 16000
SizeIoMin == 4
SizeGpMin == 1
SizeStMin == 125
SizeMax == 16384
SizeStandardMin == 1
SizeStandardMax == 1024

IopsRangeErr(vt, lo, hi) ==
    Errorf("plain", <<Lit("EBS iops for volume type"), ArgS(vt),
                      Lit("must be between"), ArgSet(lo), Lit("and"), ArgSet(hi)>>)
SizeRangeErr(vt, lo, hi) ==
    Errorf("plain", <<Lit("EBS volume size for volume type"), ArgS(vt),
                      Lit("must be between"), ArgSet(lo), Lit("and"), ArgSet(hi)>>)

ValidateIopsMutant(r) ==
    IF IsNil(r.Iops) THEN NoErr
    ELSE LET iops == Deref(r.Iops) IN
         CASE r.VolumeType = "io1" ->
                IF iops < IopsIo1Min \/ iops > IopsIo1Max
                THEN IopsRangeErr(r.VolumeType, IopsIo1Min, IopsIo1Max) ELSE NoErr
           [] r.VolumeType = "io2" ->
                IF iops < IopsIo2Min \/ iops > IopsIo2Max
                THEN IopsRangeErr(r.VolumeType, IopsIo2Min, IopsIo2Max) ELSE NoErr
           [] r.VolumeType = "gp3" ->
                IF iops < IopsGp3Min \/ iops >= IopsGp3Max
                THEN IopsRangeErr(r.VolumeType, IopsGp3Min, IopsGp3Max) ELSE NoErr
           [] OTHER -> PlainErr("EBS iops is only valid for volume types io1, io2 and gp3")

ValidateIops(r) ==
    IF IsNil(r.Iops) THEN NoErr
    ELSE LET iops == Deref(r.Iops) IN
         CASE r.VolumeType = "io1" ->
                IF iops < IopsIo1Min \/ iops > IopsIo1Max
                THEN IopsRangeErr(r.VolumeType, IopsIo1Min, IopsIo1Max) ELSE NoErr
           [] r.VolumeType = "io2" ->
                IF iops < IopsIo2Min \/ iops > IopsIo2Max
                THEN IopsRangeErr(r.VolumeType, IopsIo2Min, IopsIo2Max) ELSE NoErr
           [] r.VolumeType = "gp3" ->
                IF iops < IopsGp3Min \/ iops > IopsGp3Max
                THEN IopsRangeErr(r.VolumeType, IopsGp3Min, IopsGp3Max) ELSE NoErr
           [] OTHER -> PlainErr("EBS iops is only valid for volume types io1, io2 and gp3")

ValidateThroughputMutant(r) ==
    IF ~IsNil(r.Throughput) /\ r.VolumeType \notin {"gp3", "gp2"}
    THEN PlainErr("EBS throughput is only valid for volume type gp3")
    ELSE NoErr

ValidateThroughput(r) ==
    IF ~IsNil(r.Throughput) /\ r.VolumeType # "gp3"
    THEN PlainErr("EBS throughput is only valid for volume type gp3")
    ELSE NoErr

ValidateVolumeSizeMutant(r) ==
    IF IsNil(r.VolumeSize) THEN NoErr
    ELSE LET size == Deref(r.VolumeSize) IN
         CASE r.VolumeType \in {"io1", "io2"} ->
                IF size < SizeIoMin \/ size > SizeMax
                THEN SizeRangeErr(r.VolumeType, SizeIoMin, SizeMax) ELSE NoErr
           [] r.VolumeType \in {"gp2", "gp3", "st1", "sc1"} ->
                IF size < SizeGpMin \/ size > SizeMax
                THEN SizeRangeErr(r.VolumeType, SizeGpMin, SizeMax) ELSE NoErr
           [] r.VolumeType \in {"standard", ""} ->
                IF size < SizeStandardMin \/ size > SizeStandardMax
                THEN SizeRangeErr("standard", SizeStandardMin, SizeStandardMax) ELSE NoErr
           [] OTHER -> PlainErr("EBS volume size is only valid for volume types io1, io2, gp2, gp3, st1, sc1 and standard")

ValidateVolumeSize(r) ==
    IF IsNil(r.VolumeSize) THEN NoErr
    ELSE LET size == Deref(r.VolumeSize) IN
         CASE r.VolumeType \in {"io1", "io2"} ->
                IF size < SizeIoMin \/ size > SizeMax
                THEN SizeRangeErr(r.VolumeType, SizeIoMin, SizeMax) ELSE NoErr
           [] r.VolumeType \in {"gp2", "gp3"} ->
                IF size < SizeGpMin \/ size > SizeMax
                THEN SizeRangeErr(r.VolumeType, SizeGpMin, SizeMax) ELSE NoErr
           [] r.VolumeType \in {"st1", "sc1"} ->
                IF size < SizeStMin \/ size > SizeMax
                THEN SizeRangeErr(r.VolumeType, SizeStMin, SizeMax) ELSE NoErr
           [] r.VolumeType \in {"standard", ""} ->
                IF size < SizeStandardMin \/ size > SizeStandardMax
                THEN SizeRangeErr("standard", SizeStandardMin, SizeStandardMax) ELSE NoErr
           [] OTHER -> PlainErr("EBS volume size is only valid for volume types io1, io2, gp2, gp3, st1, sc1 and standard")

ValidateIopsRequiredMutant(r) ==
    IF r.VolumeType = "io1" /\ IsNil(r.Iops)
    THEN Errorf("plain", <<Lit("the parameter iops must be specified for"),
                           ArgS(r.VolumeType), Lit("volumes")>>)
    ELSE NoErr

ValidateIopsRequired(r) ==
    IF r.VolumeType \in {"io1", "io2"} /\ IsNil(r.Iops)
    THEN Errorf("plain", <<Lit("the parameter iops must be specified for"),
                           ArgS(r.VolumeType), Lit("volumes")>>)
    ELSE NoErr

ValidateMutant(r) ==
    IF r.Region = "" THEN PlainErr("missing region")
    ELSE IF r.BootstrapParams.Name = EmptyStr THEN PlainErr("missing bootstrap params")
    ELSE IF IsErr(ValidateThroughput(r)) THEN ValidateThroughput(r)
    ELSE IF IsErr(ValidateIops(r)) THEN ValidateIops(r)
    ELSE IF IsErr(ValidateVolumeSize(r)) THEN ValidateVolumeSize(r)
    ELSE ValidateIopsRequired(r)

Validate(r) ==
    IF r.Region = "" THEN PlainErr("missing region")
    ELSE IF r.BootstrapParams.Name = EmptyStr THEN PlainErr("missing bootstrap params")
    ELSE IF IsErr(ValidateIops(r)) THEN ValidateIops(r)
    ELSE IF IsErr(ValidateThroughput(r)) THEN ValidateThroughput(r)
    ELSE IF IsErr(ValidateVolumeSize(r)) THEN ValidateVolumeSize(r)
    ELSE ValidateIopsRequired(r)

MergeExtraSpecsResets(r, extraSpecs) ==
    [r EXCEPT
       !.SubnetID = IF ~IsNil(extraSpecs.SubnetID) /\ Deref(extraSpecs.SubnetID) # EmptyStr
                    THEN Deref(extraSpecs.SubnetID) ELSE @,
       !.Iops = extraSpecs.Iops,
       !.Throughput = IF ~IsNil(extraSpecs.Throughput) THEN extraSpecs.Throughput ELSE @,
       !.VolumeSize = IF ~IsNil(extraSpecs.VolumeSize) THEN extraSpecs.VolumeSize ELSE @,
       !.VolumeType = extraSpecs.VolumeType,
       !.SSHKeyName = IF ~IsNil(extraSpecs.SSHKeyName) THEN extraSpecs.SSHKeyName ELSE @,
       !.SecurityGroupIds = IF Len(extraSpecs.SecurityGroupIds) > 0
                            THEN extraSpecs.SecurityGroupIds ELSE @,
       !.DisableUpdates = IF ~IsNil(extraSpecs.DisableUpdates)
                          THEN Deref(extraSpecs.DisableUpdates) ELSE @,
       !.EnableBootDebug = IF ~IsNil(extraSpecs.EnableBootDebug)
                           THEN Deref(extraSpecs.EnableBootDebug) ELSE @]

MergeExtraSpecsAppends(r, extraSpecs) ==
    [r EXCEPT
       !.SubnetID = IF ~IsNil(extraSpecs.SubnetID) /\ Deref(extraSpecs.SubnetID) # EmptyStr
                    THEN Deref(extraSpecs.SubnetID) ELSE @,
       !.Iops = IF ~IsNil(extraSpecs.Iops) THEN extraSpecs.Iops ELSE @,
       !.Throughput = IF ~IsNil(extraSpecs.Throughput) THEN extraSpecs.Throughput ELSE @,
       !.VolumeSize = IF ~IsNil(extraSpecs.VolumeSize) THEN extraSpecs.VolumeSize ELSE @,
       !.VolumeType = IF extraSpecs.VolumeType # "" THEN extraSpecs.VolumeType ELSE @,
       !.SSHKeyName = IF ~IsNil(extraSpecs.SSHKeyName) THEN extraSpecs.SSHKeyName ELSE @,
       !.SecurityGroupIds = @ \o extraSpecs.SecurityGroupIds,
       !.DisableUpdates = IF ~IsNil(extraSpecs.DisableUpdates)
                          THEN Deref(extraSpecs.DisableUpdates) ELSE @,
       !.EnableBootDebug = IF ~IsNil(extraSpecs.EnableBootDebug)
                           THEN Deref(extraSpecs.EnableBootDebug) ELSE @]

MergeExtraSpecs(r, extraSpecs) ==
    [r EXCEPT
       !.SubnetID = IF ~IsNil(extraSpecs.SubnetID) /\ Deref(extraSpecs.SubnetID) # EmptyStr
                    THEN Deref(extraSpecs.SubnetID) ELSE @,
       !.Iops = IF ~IsNil(extraSpecs.Iops) THEN extraSpecs.Iops ELSE @,
       !.Throughput = IF ~IsNil(extraSpecs.Throughput) THEN extraSpecs.Throughput ELSE @,
       !.VolumeSize = IF ~IsNil(extraSpecs.VolumeSize) THEN extraSpecs.VolumeSize ELSE @,
       !.VolumeType = IF extraSpecs.VolumeType # "" THEN extraSpecs.VolumeType ELSE @,
       !.SSHKeyName = IF ~IsNil(extraSpecs.SSHKeyName) THEN extraSpecs.SSHKeyName ELSE @,
       !.SecurityGroupIds = IF Len(extraSpecs.SecurityGroupIds) > 0
                            THEN extraSpecs.SecurityGroupIds ELSE @,
       !.DisableUpdates = IF ~IsNil(extraSpecs.DisableUpdates)
                          THEN Deref(extraSpecs.DisableUpdates) ELSE @,
       !.EnableBootDebug = IF ~IsNil(extraSpecs.EnableBootDebug)
                           THEN Deref(extraSpecs.EnableBootDebug) ELSE @]

(* toolsFound is the outcome of the pluggable tool lookup for the          *)
(* requested OS type and architecture.                                     *)
GetRunnerSpecUnvalidated(cfg, data, ctrlID, toolsFound) ==
    IF ~toolsFound
    THEN [val |-> NilPtr, err |-> Errorf("plain", <<Lit("failed to get tools")>>)]
    ELSE LET es == newExtraSpecsFromBootstrapData(data) IN
         IF IsErr(es.err)
         THEN [val |-> NilPtr, err |-> WrapErr("error loading extra specs", es.err)]
         ELSE LET extraSpecs == Deref(es.val)
                  init == [Region |-> cfg.Region,
                           DisableUpdates |-> FALSE,
                           ExtraPackages |-> extraSpecs.ExtraPackages,
                           EnableBootDebug |-> FALSE,
                           Tools |-> [OS |-> data.OSType, Architecture |-> data.OSArch],
                           BootstrapParams |-> data,
                           SecurityGroupIds |-> <<>>,
                           SubnetID |-> cfg.SubnetID,
                           SSHKeyName |-> NilPtr,
                           Iops |-> NilPtr,
                           Throughput |-> NilPtr,
                           VolumeSize |-> NilPtr,
                           VolumeType |-> "",
                           ControllerID |-> ctrlID]
                  spec == MergeExtraSpecs(init, extraSpecs)
              IN [val |-> Ptr(spec), err |-> NoErr]

GetRunnerSpecFromBootstrapParams(cfg, data, ctrlID, toolsFound) ==
    IF ~toolsFound
    THEN [val |-> NilPtr, err |-> Errorf("plain", <<Lit("failed to get tools")>>)]
    ELSE LET es == newExtraSpecsFromBootstrapData(data) IN
         IF IsErr(es.err)
         THEN [val |-> NilPtr, err |-> WrapErr("error loading extra specs", es.err)]
         ELSE LET extraSpecs == Deref(es.val)
                  init == [Region |-> cfg.Region,
                           DisableUpdates |-> FALSE,
                           ExtraPackages |-> extraSpecs.ExtraPackages,
                           EnableBootDebug |-> FALSE,
                           Tools |-> [OS |-> data.OSType, Architecture |-> data.OSArch],
                           BootstrapParams |-> data,
                           SecurityGroupIds |-> <<>>,
                           SubnetID |-> cfg.SubnetID,
                           SSHKeyName |-> NilPtr,
                           Iops |-> NilPtr,
                           Throughput |-> NilPtr,
                           VolumeSize |-> NilPtr,
                           VolumeType |-> "",
                           ControllerID |-> ctrlID]
                  spec == MergeExtraSpecs(init, extraSpecs)
              IN IF IsErr(Validate(spec))
                 THEN [val |-> NilPtr, err |-> WrapErr("error validating spec", Validate(spec))]
                 ELSE [val |-> Ptr(spec), err |-> NoErr]

(* renderOK is the outcome of the external cloud-config templating. *)
ComposeUserData(r, renderOK) ==
    LET script == [Name |-> r.BootstrapParams.Name,
                   DisableUpdatesOnBoot |-> r.DisableUpdates,
                   ExtraPackages |-> r.ExtraPackages,
                   EnableBootDebug |-> r.EnableBootDebug]
    IN CASE r.BootstrapParams.OSType = "linux" ->
              IF renderOK
              THEN [val |-> Ptr([base64 |-> TRUE, wrap |-> "", script |-> script]), err |-> NoErr]
              ELSE [val |-> NilPtr, err |-> PlainErr("failed to generate userdata")]
         [] r.BootstrapParams.OSType = "windows" ->
              IF renderOK
              THEN [val |-> Ptr([base64 |-> TRUE, wrap |-> "powershell", script |-> script]),
                    err |-> NoErr]
              ELSE [val |-> NilPtr, err |-> PlainErr("failed to generate userdata")]
         [] OTHER ->
              [val |-> NilPtr,
               err |-> Errorf("plain", <<Lit("unsupported OS type for cloud config"),
                                         ArgS(r.BootstrapParams.OSType)>>)]

----------------------------------------------------------------------------
(* AwsCli: the client adapter.  Every operation takes the world and        *)
(* returns the world after its API calls, its value and its error.         *)

LiveStateNames == <<"pending", "running", "stopping", "stopped">>

Filter(name, values) == [Name |-> Ptr(name), Values |-> values]

RECURSIVE FlattenFrom(_, _)
FlattenFrom(reservations, i) ==
    IF i > Len(reservations) THEN <<>>
    ELSE reservations[i].Instances \o FlattenFrom(reservations, i + 1)

Flatten(reservations) == FlattenFrom(reservations, 1)

StartInstance(w, vmName) ==
    LET r == EC2StartInstances(w, [InstanceIds |-> <<vmName>>]) IN
    [w |-> r.w, err |-> IF IsErr(r.err) THEN WrapErr("failed to start instance", r.err) ELSE NoErr]

StopInstance(w, vmName) ==
    LET r == EC2StopInstances(w, [InstanceIds |-> <<vmName>>]) IN
    [w |-> r.w, err |-> IF IsErr(r.err) THEN WrapErr("failed to stop instance", r.err) ELSE NoErr]

FindInstances(w, ctrlID, instanceName) ==
    LET r == EC2DescribeInstances(w,
                [InstanceIds |-> <<>>,
                 Filters |-> <<Filter("tag:GARM_CONTROLLER_ID", <<ctrlID>>),
                               Filter("tag:Name", <<instanceName>>),
                               Filter(StateFilterName, LiveStateNames)>>])
    IN IF IsErr(r.err)
       THEN [w |-> r.w, val |-> <<>>, err |-> WrapErr("failed to find instances by tags", r.err)]
       ELSE [w |-> r.w, val |-> Flatten(r.out), err |-> NoErr]

GetInstanceMutant(w, instance) ==
    LET r == EC2DescribeInstances(w,
                [InstanceIds |-> <<instance>>,
                 Filters |-> <<>>])
        instances == Flatten(r.out)
    IN IF IsErr(r.err)
       THEN [w |-> r.w, val |-> ZeroInstance, err |-> WrapErr("failed to get instance", r.err)]
       ELSE IF Len(instances) = 0
       THEN [w |-> r.w, val |-> ZeroInstance,
             err |-> Errorf("ErrNotFound", <<Lit("no such instance"), Arg(instance)>> \o ErrNotFound.msg)]
       ELSE [w |-> r.w, val |-> instances[1], err |-> NoErr]

GetInstance(w, instance) ==
    LET r == EC2DescribeInstances(w,
                [InstanceIds |-> <<instance>>,
                 Filters |-> <<Filter(StateFilterName, LiveStateNames)>>])
        instances == Flatten(r.out)
    IN IF IsErr(r.err)
       THEN [w |-> r.w, val |-> ZeroInstance, err |-> WrapErr("failed to get instance", r.err)]
       ELSE IF Len(instances) = 0
       THEN [w |-> r.w, val |-> ZeroInstance,
             err |-> Errorf("ErrNotFound", <<Lit("no such instance"), Arg(instance)>> \o ErrNotFound.msg)]
       ELSE [w |-> r.w, val |-> instances[1], err |-> NoErr]

FindOneInstanceMutant(w, ctrlID, instanceName) ==
    IF HasPrefix(instanceName, IdPrefix)
    THEN LET g == GetInstance(w, instanceName) IN
         IF IsErr(g.err)
         THEN [w |-> g.w, val |-> ZeroInstance,
               err |-> Errorf(g.err.kind, <<Lit("failed to get instance"), Arg(instanceName)>> \o g.err.msg)]
         ELSE g
    ELSE LET f == FindInstances(w, ctrlID, instanceName) IN
         IF IsErr(f.err)
         THEN [w |-> f.w, val |-> ZeroInstance,
               err |-> Errorf("ErrNotFound", <<Lit("failed to find instance"), Arg(instanceName)>>
                                              \o ErrNotFound.msg)]
         ELSE IF Len(f.val) = 0
         THEN [w |-> f.w, val |-> ZeroInstance,
               err |-> Errorf("ErrNotFound", <<Lit("no such instance"), Arg(instanceName)>>
                                              \o ErrNotFound.msg)]
         ELSE [w |-> f.w, val |-> f.val[1], err |-> NoErr]

FindOneInstance(w, ctrlID, instanceName) ==
    IF HasPrefix(instanceName, IdPrefix)
    THEN LET g == GetInstance(w, instanceName) IN
         IF IsErr(g.err)
         THEN [w |-> g.w, val |-> ZeroInstance,
               err |-> Errorf(g.err.kind, <<Lit("failed to get instance"), Arg(instanceName)>> \o g.err.msg)]
         ELSE g
    ELSE LET f == FindInstances(w, ctrlID, instanceName) IN
         IF IsErr(f.err)
         THEN [w |-> f.w, val |-> ZeroInstance,
               err |-> Errorf("ErrNotFound", <<Lit("failed to find instance"), Arg(instanceName)>>
                                              \o ErrNotFound.msg)]
         ELSE IF Len(f.val) > 1
         THEN [w |-> f.w, val |-> ZeroInstance,
               err |-> Errorf("plain", <<Lit("found more than one instance with name"),
                                         Arg(instanceName)>>)]
         ELSE IF Len(f.val) = 0
         THEN [w |-> f.w, val |-> ZeroInstance,
               err |-> Errorf("ErrNotFound", <<Lit("no such instance"), Arg(instanceName)>>
                                              \o ErrNotFound.msg)]
         ELSE [w |-> f.w, val |-> f.val[1], err |-> NoErr]

IsEC2NotFoundErr(err) == err.kind = "ApiNotFound"

TerminateInstanceMutant(w, vmName) ==
    LET r == EC2TerminateInstances(w, [InstanceIds |-> <<vmName>>]) IN
    IF IsErr(r.err)
    THEN [w |-> r.w, err |-> WrapErr("failed to terminate instance", r.err)]
    ELSE [w |-> r.w, err |-> NoErr]

TerminateInstance(w, vmName) ==
    LET r == EC2TerminateInstances(w, [InstanceIds |-> <<vmName>>]) IN
    IF IsErr(r.err) /\ ~IsEC2NotFoundErr(r.err)
    THEN [w |-> r.w, err |-> WrapErr("failed to terminate instance", r.err)]
    ELSE [w |-> r.w, err |-> NoErr]

ListDescribedInstancesMutant(w, poolID) ==
    LET r == EC2DescribeInstances(w,
                [InstanceIds |-> <<>>,
                 Filters |-> <<Filter("tag:GARM_POOL_ID", <<poolID>>)>>])
    IN IF IsErr(r.err)
       THEN [w |-> r.w, val |-> <<>>, err |-> WrapErr("failed to get instance", r.err)]
       ELSE [w |-> r.w, val |-> Flatten(r.out), err |-> NoErr]

ListDescribedInstances(w, poolID) ==
    LET r == EC2DescribeInstances(w,
                [InstanceIds |-> <<>>,
                 Filters |-> <<Filter("tag:GARM_POOL_ID", <<poolID>>),
                               Filter(StateFilterName, LiveStateNames)>>])
    IN IF IsErr(r.err)
       THEN [w |-> r.w, val |-> <<>>, err |-> WrapErr("failed to get instance", r.err)]
       ELSE [w |-> r.w, val |-> Flatten(r.out), err |-> NoErr]

RunInstancesInputMutant(spec, udata) ==
    [ImageId |-> Ptr(spec.BootstrapParams.Image),
     InstanceType |-> spec.BootstrapParams.Flavor,
     MaxCount |-> Ptr(1),
     MinCount |-> Ptr(1),
     SubnetId |-> Ptr(Cfg.SubnetID),
     UserData |-> Ptr(udata),
     KeyName |-> spec.SSHKeyName,
     SecurityGroupIds |-> <<>>,
     BlockDeviceMappings |-> <<>>,
     TagSpecifications |->
        <<[ResourceType |-> "instance",
           Tags |-> <<Tag("Name", spec.BootstrapParams.Name),
                      Tag("GARM_POOL_ID", spec.BootstrapParams.PoolID),
                      Tag("OSType", spec.BootstrapParams.OSType),
                      Tag("OSArch", spec.BootstrapParams.OSArch),
                      Tag("GARM_CONTROLLER_ID", spec.ControllerID)>>]>>]

(* The launch request, field by field as the code fills it; the fields of  *)
(* the SDK input that the code leaves alone keep their zero value.         *)
RunInstancesInput(spec, udata) ==
    [ImageId |-> Ptr(spec.BootstrapParams.Image),
     InstanceType |-> spec.BootstrapParams.Flavor,
     MaxCount |-> Ptr(1),
     MinCount |-> Ptr(1),
     SubnetId |-> Ptr(spec.SubnetID),
     UserData |-> Ptr(udata),
     KeyName |-> spec.SSHKeyName,
     SecurityGroupIds |-> <<>>,
     BlockDeviceMappings |-> <<>>,
     TagSpecifications |->
        <<[ResourceType |-> "instance",
           Tags |-> <<Tag("Name", spec.BootstrapParams.Name),
                      Tag("GARM_POOL_ID", spec.BootstrapParams.PoolID),
                      Tag("OSType", spec.BootstrapParams.OSType),
                      Tag("OSArch", spec.BootstrapParams.OSArch),
                      Tag("GARM_CONTROLLER_ID", spec.ControllerID)>>]>>]

CreateRunningInstanceMutant(w, specPtr, renderOK) ==
    IF IsNil(specPtr)
    THEN [w |-> w, val |-> EmptyStr, err |-> PlainErr("invalid nil runner spec")]
    ELSE LET spec == Deref(specPtr)
             u == ComposeUserData(spec, renderOK)
         IN IF IsErr(u.err)
            THEN [w |-> w, val |-> EmptyStr, err |-> WrapErr("failed to compose user data", u.err)]
            ELSE LET r1 == EC2RunInstances(w, RunInstancesInput(spec, Deref(u.val)))
                     r == IF IsErr(r1.err)
                          THEN EC2RunInstances(r1.w, RunInstancesInput(spec, Deref(u.val)))
                          ELSE r1
                 IN IF IsErr(r.err)
                    THEN [w |-> r.w, val |-> EmptyStr, err |-> WrapErr("failed to create instance", r.err)]
                    ELSE [w |-> r.w, val |-> Deref(r.out[1].InstanceId), err |-> NoErr]

CreateRunningInstance(w, specPtr, renderOK) ==
    IF IsNil(specPtr)
    THEN [w |-> w, val |-> EmptyStr, err |-> PlainErr("invalid nil runner spec")]
    ELSE LET spec == Deref(specPtr)
             u == ComposeUserData(spec, renderOK)
         IN IF IsErr(u.err)
            THEN [w |-> w, val |-> EmptyStr, err |-> WrapErr("failed to compose user data", u.err)]
            ELSE LET r == EC2RunInstances(w, RunInstancesInput(spec, Deref(u.val))) IN
                 IF IsErr(r.err)
                 THEN [w |-> r.w, val |-> EmptyStr, err |-> WrapErr("failed to create instance", r.err)]
                 ELSE [w |-> r.w, val |-> Deref(r.out[1].InstanceId), err |-> NoErr]

----------------------------------------------------------------------------
(* Observations: what the last step did *)

Idle == [op |-> "idle", arg |-> <<>>, calls |-> <<>>, val |-> <<>>, err |-> NoErr, aux |-> <<>>]

Outcome(op, arg, calls, val, err, aux) ==
    [op |-> op, arg |-> arg, calls |-> calls, val |-> val, err |-> err, aux |-> aux]

----------------------------------------------------------------------------
(* AwsProvider: the facade.  Each operation returns the world after it,    *)
(* its value, its error and (aux) the result of its instance lookup.       *)

NoLookup == <<>>
Lookup(f) == <<[val |-> f.val, err |-> f.err]>>

Result(w, val, err, aux) == [w |-> w, val |-> val, err |-> err, aux |-> aux]

ProviderCreateInstanceMutant(w, ctrlID, bootstrapParams, toolsFound, renderOK) ==
    LET sp == GetRunnerSpecFromBootstrapParams(Cfg, bootstrapParams, ctrlID, toolsFound) IN
    IF IsErr(sp.err)
    THEN Result(w, ZeroProviderInstance, WrapErr("failed to get runner spec", sp.err), sp.val)
    ELSE LET c == CreateRunningInstance(w, sp.val, renderOK) IN
         IF IsErr(c.err)
         THEN Result(c.w, ZeroProviderInstance, WrapErr("failed to create instance", c.err), sp.val)
         ELSE Result(c.w,
                     [ProviderID |-> c.val,
                      Name |-> Deref(sp.val).BootstrapParams.Name,
                      OSType |-> Deref(sp.val).BootstrapParams.OSType,
                      OSArch |-> Deref(sp.val).BootstrapParams.OSArch,
                      Status |-> StatusOfState(StateOf(c.w.cloud[Len(c.w.cloud)]))],
                     NoErr, sp.val)

ProviderCreateInstance(w, ctrlID, bootstrapParams, toolsFound, renderOK) ==
    LET sp == GetRunnerSpecFromBootstrapParams(Cfg, bootstrapParams, ctrlID, toolsFound) IN
    IF IsErr(sp.err)
    THEN Result(w, ZeroProviderInstance, WrapErr("failed to get runner spec", sp.err), sp.val)
    ELSE LET c == CreateRunningInstance(w, sp.val, renderOK) IN
         IF IsErr(c.err)
         THEN Result(c.w, ZeroProviderInstance, WrapErr("failed to create instance", c.err), sp.val)
         ELSE Result(c.w,
                     [ProviderID |-> c.val,
                      Name |-> Deref(sp.val).BootstrapParams.Name,
                      OSType |-> Deref(sp.val).BootstrapParams.OSType,
                      OSArch |-> Deref(sp.val).BootstrapParams.OSArch,
                      Status |-> "running"],
                     NoErr, sp.val)

ProviderTerminate(w, inst, aux) ==
    IF inst = EmptyStr THEN Result(w, <<>>, NoErr, aux)
    ELSE LET t == TerminateInstance(w, inst) IN
         IF IsErr(t.err)
         THEN Result(t.w, <<>>, WrapErr("failed to terminate instance", t.err), aux)
         ELSE Result(t.w, <<>>, NoErr, aux)

ProviderDeleteInstanceMutant(w, ctrlID, instance) ==
    IF HasPrefix(instance, IdPrefix)
    THEN ProviderTerminate(w, instance, NoLookup)
    ELSE LET tmp == FindOneInstance(w, "", instance) IN
         IF IsErr(tmp.err)
         THEN Result(tmp.w, <<>>, WrapErr("failed to determine instance", tmp.err), Lookup(tmp))
         ELSE IF IsNil(tmp.val.InstanceId)
         THEN Result(tmp.w, <<>>, PlainErr("failed to determine instance"), Lookup(tmp))
         ELSE ProviderTerminate(tmp.w, Deref(tmp.val.InstanceId), Lookup(tmp))

ProviderDeleteInstance(w, ctrlID, instance) ==
    IF HasPrefix(instance, IdPrefix)
    THEN ProviderTerminate(w, instance, NoLookup)
    ELSE LET tmp == FindOneInstance(w, "", instance) IN
         IF IsErr(tmp.err)
         THEN IF ErrIsNotFound(tmp.err)
              THEN Result(tmp.w, <<>>, NoErr, Lookup(tmp))
              ELSE Result(tmp.w, <<>>, WrapErr("failed to determine instance", tmp.err), Lookup(tmp))
         ELSE IF IsNil(tmp.val.InstanceId)
         THEN Result(tmp.w, <<>>, PlainErr("failed to determine instance"), Lookup(tmp))
         ELSE ProviderTerminate(tmp.w, Deref(tmp.val.InstanceId), Lookup(tmp))

ProviderGetInstanceMutant(w, ctrlID, instance) ==
    LET f == FindOneInstance(w, "", instance) IN
    IF IsErr(f.err) \/ IsNil(f.val.InstanceId)
    THEN Result(f.w, ZeroProviderInstance, NoErr, Lookup(f))
    ELSE LET p == AwsInstanceToParamsInstance(f.val) IN
         IF p.err.kind = "panic" THEN Result(f.w, ZeroProviderInstance, p.err, Lookup(f))
         ELSE IF IsErr(p.err)
         THEN Result(f.w, ZeroProviderInstance, WrapErr("failed to convert instance", p.err), Lookup(f))
         ELSE Result(f.w, p.val, NoErr, Lookup(f))

ProviderGetInstance(w, ctrlID, instance) ==
    LET f == FindOneInstance(w, "", instance) IN
    IF IsErr(f.err)
    THEN Result(f.w, ZeroProviderInstance, WrapErr("failed to get VM details", f.err), Lookup(f))
    ELSE IF IsNil(f.val.InstanceId)
    THEN Result(f.w, ZeroProviderInstance, NoErr, Lookup(f))
    ELSE LET p == AwsInstanceToParamsInstance(f.val) IN
         IF p.err.kind = "panic" THEN Result(f.w, ZeroProviderInstance, p.err, Lookup(f))
         ELSE IF IsErr(p.err)
         THEN Result(f.w, ZeroProviderInstance, WrapErr("failed to convert instance", p.err), Lookup(f))
         ELSE Result(f.w, p.val, NoErr, Lookup(f))

RECURSIVE ConvertAll(_, _, _)
ConvertAll(awsInstances, i, acc) ==
    IF i > Len(awsInstances) THEN [val |-> acc, err |-> NoErr]
    ELSE LET p == AwsInstanceToParamsInstance(awsInstances[i]) IN
         IF p.err.kind = "panic" THEN [val |-> <<>>, err |-> p.err]
         ELSE IF IsErr(p.err)
         THEN [val |-> <<>>, err |-> WrapErr("failed to convert instance", p.err)]
         ELSE ConvertAll(awsInstances, i + 1, Append(acc, p.val))

ProviderListInstances(w, ctrlID, poolID) ==
    LET l == ListDescribedInstances(w, poolID) IN
    IF IsErr(l.err)
    THEN Result(l.w, <<>>, WrapErr("failed to list instances", l.err), NoLookup)
    ELSE LET c == ConvertAll(l.val, 1, <<>>) IN Result(l.w, c.val, c.err, NoLookup)

ProviderRemoveAllInstances(w, ctrlID) == Result(w, <<>>, NoErr, NoLookup)

ProviderStopMutant(w, ctrlID, instance, force) ==
    LET f == FindOneInstance(w, "", instance) IN
    IF IsErr(f.err)
    THEN Result(f.w, <<>>, WrapErr("failed to determine instance", f.err), NoLookup)
    ELSE LET r == StopInstance(f.w, instance) IN Result(r.w, <<>>, r.err, NoLookup)

ProviderStop(w, ctrlID, instance, force) ==
    LET r == StopInstance(w, instance) IN Result(r.w, <<>>, r.err, NoLookup)

ProviderStartMutant(w, ctrlID, instance) ==
    LET f == FindOneInstance(w, "", instance) IN
    IF IsErr(f.err)
    THEN Result(f.w, <<>>, WrapErr("failed to determine instance", f.err), Lookup(f))
    ELSE IF IsNil(f.val.State)
    THEN Result(f.w, <<>>, PanicErr, Lookup(f))
    ELSE IF StateOf(f.val) = "stopped"
    THEN Result(f.w, <<>>,
                Errorf("plain", <<Lit("instance"), Arg(instance), Lit("cannot be started in"),
                                  ArgS(StateOf(f.val)), Lit("state")>>),
                Lookup(f))
    ELSE LET r == StartInstance(f.w, instance) IN Result(r.w, <<>>, r.err, Lookup(f))

ProviderStart(w, ctrlID, instance) ==
    LET f == FindOneInstance(w, "", instance) IN
    IF IsErr(f.err)
    THEN Result(f.w, <<>>, WrapErr("failed to determine instance", f.err), Lookup(f))
    ELSE IF IsNil(f.val.State)
    THEN Result(f.w, <<>>, PanicErr, Lookup(f))
    ELSE IF StateOf(f.val) = "stopping"
    THEN Result(f.w, <<>>,
                Errorf("plain", <<Lit("instance"), Arg(instance), Lit("cannot be started in"),
                                  ArgS(StateOf(f.val)), Lit("state")>>),
                Lookup(f))
    ELSE LET r == StartInstance(f.w, instance) IN Result(r.w, <<>>, r.err, Lookup(f))

----------------------------------------------------------------------------
(* The instance conversion on its own, over arbitrary records *)


NameA == <<"g", "a", "r", "m", "-", "a">>
NameB == <<"g", "a", "r", "m", "-", "b">>

ConvStates ==
    {NilPtr} \cup {Ptr([Name |-> n]) : n \in InstanceStateNames \cup {"rebooting", ""}}

ConvTags ==
    { <<>>,
      <<Tag("Name", NameA), Tag("OSType", "linux"), Tag("OSArch", "amd64")>>,
      <<Tag("OSArch", "arm64"), Tag("GARM_POOL_ID", "pool-1"), Tag("Name", NameB)>>,
      <<Tag("Name", NameA), Tag("Name", NameB)>>,
      <<[Key |-> NilPtr, Value |-> Ptr("linux")], [Key |-> Ptr("OSType"), Value |-> NilPtr]>>,
      <<Tag("OSType", "windows")>> }

ConvInputs ==
    { [InstanceId |-> id, State |-> st, Tags |-> tags] :
        id \in {NilPtr, Ptr(InstanceIdOf(1))}, st \in ConvStates, tags \in ConvTags }

InitConv ==
    /\ cloud = <<>>
    /\ controllerID = ""
    /\ \E rec \in ConvInputs : last = Outcome("convert.input", rec, <<>>, <<>>, NoErr, <<>>)

Convert ==
    /\ last.op = "convert.input"
    /\ LET r == AwsInstanceToParamsInstance(last.arg)
       IN last' = Outcome("convert", last.arg, <<>>, r.val, r.err, <<>>)
    /\ UNCHANGED <<cloud, controllerID>>

NextConv == Convert

SpecConv == InitConv /\ [][NextConv]_vars

----------------------------------------------------------------------------
(* RunnerSpec.Validate on its own, over runner specs whose numeric fields  *)
(* lie within Margin of each limit the code compares against.              *)

Margin == 1

Around(v) == (v - Margin)..(v + Margin)

ValIops ==
    {NilPtr} \cup {Ptr(v) : v \in Around(100) \cup Around(3000) \cup Around(16000)
                                  \cup Around(64000) \cup Around(256000)}

ValThroughputs == {NilPtr} \cup {Ptr(v) : v \in Around(125) \cup Around(1000)}

ValVolumeSizes ==
    {NilPtr} \cup {Ptr(v) : v \in Around(1) \cup Around(4) \cup Around(125)
                                  \cup Around(1024) \cup Around(16384)
                                  \cup Around(65536)}

(* The seven values of the SDK's VolumeType, the unset type, and a string  *)
(* that is none of them.                                                   *)
ValVolumeTypes == {"", "io1", "io2", "gp2", "gp3", "st1", "sc1", "standard", "io3"}

ValIdentities == {<<"", NameA>>, <<"us-east-1", EmptyStr>>, <<"us-east-1", NameA>>}

ValSpec(ident, vt, iops, thr, size) ==
    [Region |-> ident[1],
     DisableUpdates |-> FALSE,
     ExtraPackages |-> <<>>,
     EnableBootDebug |-> FALSE,
     Tools |-> [OS |-> "linux", Architecture |-> "amd64"],
     BootstrapParams |-> [Name |-> ident[2], OSType |-> "linux", OSArch |-> "amd64",
                          Image |-> "ami-12345678", Flavor |-> "t2.micro",
                          PoolID |-> "pool-1", ExtraSpecs |-> JObject(NoMembers)],
     SecurityGroupIds |-> <<>>,
     SubnetID |-> SubnetCfg,
     SSHKeyName |-> NilPtr,
     Iops |-> iops,
     Throughput |-> thr,
     VolumeSize |-> size,
     VolumeType |-> vt,
     ControllerID |-> ""]

InitValidate ==
    /\ cloud = <<>>
    /\ controllerID = ""
    /\ \E ident \in ValIdentities, vt \in ValVolumeTypes, iops \in ValIops,
          thr \in ValThroughputs, size \in ValVolumeSizes :
          last = Outcome("validate.input", ValSpec(ident, vt, iops, thr, size),
                         <<>>, <<>>, NoErr, <<>>)

RunValidate ==
    /\ last.op = "validate.input"
    /\ last' = Outcome("validate", last.arg, <<>>, <<>>, Validate(last.arg), <<>>)
    /\ UNCHANGED <<cloud, controllerID>>

NextValidate == RunValidate

SpecValidate == InitValidate /\ [][NextValidate]_vars

----------------------------------------------------------------------------
(* RunnerSpec.MergeExtraSpecs on its own: a runner spec as the builder     *)
(* initialises it, or one with every optional field already set, merged    *)
(* with every combination of set and unset extra-spec fields.              *)

MergeBootstrap ==
    [Name |-> NameA, OSType |-> "linux", OSArch |-> "amd64", Image |-> "ami-12345678",
     Flavor |-> "t2.micro", PoolID |-> "pool-1", ExtraSpecs |-> JObject(NoMembers)]

MergeSpecFresh ==
    [Region |-> Cfg.Region,
     DisableUpdates |-> FALSE,
     ExtraPackages |-> <<>>,
     EnableBootDebug |-> FALSE,
     Tools |-> [OS |-> "linux", Architecture |-> "amd64"],
     BootstrapParams |-> MergeBootstrap,
     SecurityGroupIds |-> <<>>,
     SubnetID |-> Cfg.SubnetID,
     SSHKeyName |-> NilPtr,
     Iops |-> NilPtr,
     Throughput |-> NilPtr,
     VolumeSize |-> NilPtr,
     VolumeType |-> "",
     ControllerID |-> "controller-1"]

MergeSpecFull ==
    [MergeSpecFresh EXCEPT
       !.DisableUpdates = TRUE,
       !.ExtraPackages = <<"package0">>,
       !.EnableBootDebug = TRUE,
       !.SecurityGroupIds = <<"sg-0">>,
       !.SSHKeyName = Ptr("key-0"),
       !.Iops = Ptr(100),
       !.Throughput = Ptr(125),
       !.VolumeSize = Ptr(8),
       !.VolumeType = "io1"]

MergeSpecs == {MergeSpecFresh, MergeSpecFull}

MergeExtras ==
    [SubnetID : {NilPtr, Ptr(EmptyStr), Ptr(SubnetPrefix \o <<"0", "a", "0", "a", "0",
                                       "a", "0", "a", "0", "a", "0", "a", "0", "a", "0",
                                       "a", "0">>)},
     SSHKeyName : {NilPtr, Ptr("key-1")},
     Iops : {NilPtr, Ptr(3000)},
     Throughput : {NilPtr, Ptr(200)},
     VolumeSize : {NilPtr, Ptr(50)},
     VolumeType : {"", "gp3"},
     SecurityGroupIds : {<<>>, <<"sg-1", "sg-2">>},
     DisableUpdates : {NilPtr, Ptr(FALSE), Ptr(TRUE)},
     EnableBootDebug : {NilPtr, Ptr(FALSE), Ptr(TRUE)},
     ExtraPackages : {<<>>, <<"package1", "package2">>}]

InitMerge ==
    /\ cloud = <<>>
    /\ controllerID = ""
    /\ \E r \in MergeSpecs, e \in MergeExtras :
          last = Outcome("merge.input", [spec |-> r, extra |-> e], <<>>, <<>>, NoErr, <<>>)

RunMerge ==
    /\ last.op = "merge.input"
    /\ last' = Outcome("merge", last.arg, <<>>,
                       MergeExtraSpecs(last.arg.spec, last.arg.extra), NoErr, <<>>)
    /\ UNCHANGED <<cloud, controllerID>>

NextMerge == RunMerge

SpecMerge == InitMerge /\ [][NextMerge]_vars

----------------------------------------------------------------------------
(* Extra-specs parsing on its own, over JSON objects assembled from an     *)
(* optional value for each of seven keys, and a document that is not JSON. *)

JWide == [type |-> "integer", v |-> 0, wide |-> TRUE]

SubnetNotHex == SubnetPrefix \o <<"0", "a", "0", "a", "0", "a", "0", "a", "0",
                                  "a", "0", "a", "0", "a", "0", "a", "g">>
SubnetValid == SubnetPrefix \o <<"0", "a", "0", "a", "0", "a", "0", "a", "0",
                                 "A", "0", "a", "0", "F", "0", "a", "0">>
SubnetTooShort == SubnetPrefix \o <<"1", "2", "3">>

Member(key, p) == IF IsNil(p) THEN NoMembers ELSE key :> Deref(p)

(* The choices for each key, the first being the absent key. *)
ParseSubnets ==
    <<NilPtr, Ptr(JStr(SubnetValid)), Ptr(JStr(SubnetTooShort)), Ptr(JStr(SubnetNotHex)),
      Ptr(JInt(123))>>
ParseVolumeTypes == <<NilPtr, Ptr(JStr("gp3")), Ptr(JStr("io3")), Ptr(JInt(1))>>
ParseThroughputs ==
    <<NilPtr, Ptr(JStr("fast"))>>
    \o [i \in 1..(2 * Margin + 1) |-> Ptr(JInt(125 - Margin + i - 1))]
    \o [i \in 1..(2 * Margin + 1) |-> Ptr(JInt(1000 - Margin + i - 1))]
ParseUnknowns == <<NilPtr, Ptr(JInt(1))>>
ParseIops == <<NilPtr, Ptr(JInt(3000)), Ptr(JWide), Ptr(JStr("many"))>>
ParseFlags == <<NilPtr, Ptr(JBool(TRUE)), Ptr(JStr("yes"))>>
ParseGroups == <<NilPtr, Ptr(JArr(<<JStr("sg-1"), JStr("sg-2")>>)), Ptr(JArr(<<JInt(1)>>))>>

ParseDoc(sn, vt, thr, un, io, du, sg) ==
    JObject(Member("subnet_id", ParseSubnets[sn]) @@ Member("volume_type", ParseVolumeTypes[vt])
            @@ Member("throughput", ParseThroughputs[thr])
            @@ Member("unknown_key", ParseUnknowns[un])
            @@ Member("iops", ParseIops[io]) @@ Member("disable_updates", ParseFlags[du])
            @@ Member("security_group_ids", ParseGroups[sg]))

ParseInput(doc) ==
    Outcome("parse.input", [MergeBootstrap EXCEPT !.ExtraSpecs = doc], <<>>, <<>>, NoErr, <<>>)

InitParse ==
    /\ cloud = <<>>
    /\ controllerID = ""
    /\ \/ last = ParseInput(JInvalid)
       \/ \E sn \in 1..Len(ParseSubnets), vt \in 1..Len(ParseVolumeTypes),
             thr \in 1..Len(ParseThroughputs), un \in 1..Len(ParseUnknowns),
             io \in 1..Len(ParseIops), du \in 1..Len(ParseFlags),
             sg \in 1..Len(ParseGroups) :
             last = ParseInput(ParseDoc(sn, vt, thr, un, io, du, sg))

RunParse ==
    /\ last.op = "parse.input"
    /\ LET r == newExtraSpecsFromBootstrapData(last.arg)
       IN last' = Outcome("parse", last.arg, <<>>, r.val, r.err, <<>>)
    /\ UNCHANGED <<cloud, controllerID>>

NextParse == RunParse

SpecParse == InitParse /\ [][NextParse]_vars

----------------------------------------------------------------------------
(* The provider driven by its host, one command per process, against a     *)
(* cloud whose instances move through their lifecycle on their own.        *)

ControllerIDs == {"", "controller-1"}
Names == {NameA, NameB}
Idents == Names \cup {InstanceIdOf(n) : n \in 1..MaxInstances}
Pools == {"pool-1", "pool-2"}

(* Which API calls of the operation the environment fails: none, the       *)
(* first, or the second.                                                   *)
FailChoices == {<<>>, <<TRUE>>, <<FALSE, TRUE>>}

(* Which record of a DescribeInstances reply lacks its ID: none, or one of *)
(* the first MaxInstances records.                                         *)
NoIdChoices == 0..MaxInstances

SubnetExtra == SubnetPrefix \o <<"0", "a", "0", "a", "0", "a", "0", "a", "0",
                                 "A", "0", "a", "0", "F", "0", "a", "0">>
SubnetShort == SubnetPrefix \o <<"1", "2", "3">>

ExtraSpecsDocs ==
    << JObject(NoMembers),
       JObject([subnet_id |-> JStr(SubnetExtra)]),
       JObject([security_group_ids |-> JArr(<<JStr("sg-1"), JStr("sg-2")>>),
                ssh_key_name |-> JStr("key-1")]),
       JObject([volume_type |-> JStr("gp3"), volume_size |-> JInt(8),
                iops |-> JInt(3000), throughput |-> JInt(125)]),
       JObject([volume_type |-> JStr("io1")]),
       JObject([unknown_key |-> JInt(1)]),
       JObject([subnet_id |-> JInt(123)]),
       JObject([subnet_id |-> JStr(SubnetShort)]),
       JInvalid >>

Bootstrap(name, osType, poolID, extra) ==
    [Name |-> name, OSType |-> osType, OSArch |-> "amd64", Image |-> "ami-12345678",
     Flavor |-> "t2.micro", PoolID |-> poolID, ExtraSpecs |-> extra]

BootstrapShapes ==
    << <<NameA, "linux", "pool-1">>, <<NameB, "windows", "pool-2">>,
       <<NameA, "freebsd", "pool-1">>, <<EmptyStr, "linux", "pool-1">> >>

Init ==
    /\ cloud = <<>>
    /\ controllerID \in ControllerIDs
    /\ last = Idle

Finish(op, arg, r) ==
    /\ cloud' = r.w.cloud
    /\ last' = Outcome(op, arg, r.w.calls, r.val, r.err, r.aux)
    /\ UNCHANGED controllerID

CreateInstance ==
    /\ last.op = "idle" /\ Len(cloud) < MaxInstances
    /\ \E b \in 1..Len(BootstrapShapes), e \in 1..Len(ExtraSpecsDocs),
          toolsFound \in BOOLEAN, renderOK \in BOOLEAN, fail \in {<<>>, <<TRUE>>} :
          LET bp == Bootstrap(BootstrapShapes[b][1], BootstrapShapes[b][2],
                              BootstrapShapes[b][3], ExtraSpecsDocs[e])
          IN Finish("create", [bp |-> bp, toolsFound |-> toolsFound, renderOK |-> renderOK],
                    ProviderCreateInstance(World(cloud, fail), controllerID, bp, toolsFound, renderOK))

DeleteInstance ==
    /\ last.op = "idle"
    /\ \E instance \in Idents, fail \in FailChoices, k \in NoIdChoices :
          Finish("delete", instance,
                 ProviderDeleteInstance(WorldNoId(cloud, fail, k), controllerID, instance))

GetInstanceOp ==
    /\ last.op = "idle"
    /\ \E instance \in Idents, fail \in {<<>>, <<TRUE>>}, k \in NoIdChoices :
          Finish("get", instance,
                 ProviderGetInstance(WorldNoId(cloud, fail, k), controllerID, instance))

ListInstances ==
    /\ last.op = "idle"
    /\ \E poolID \in Pools, fail \in {<<>>, <<TRUE>>}, k \in NoIdChoices :
          Finish("list", poolID,
                 ProviderListInstances(WorldNoId(cloud, fail, k), controllerID, poolID))

RemoveAllInstances ==
    /\ last.op = "idle"
    /\ Finish("removeAll", <<>>, ProviderRemoveAllInstances(World(cloud, <<>>), controllerID))

Stop ==
    /\ last.op = "idle"
    /\ \E instance \in Idents, force \in BOOLEAN, fail \in {<<>>, <<TRUE>>} :
          Finish("stop", instance, ProviderStop(World(cloud, fail), controllerID, instance, force))

Start ==
    /\ last.op = "idle"
    /\ \E instance \in Idents, fail \in FailChoices, k \in NoIdChoices :
          Finish("start", instance,
                 ProviderStart(WorldNoId(cloud, fail, k), controllerID, instance))

(* EC2 on its own: pending -> running, stopping -> stopped,                *)
(* shutting-down -> terminated, and a terminated instance is eventually    *)
(* forgotten.                                                              *)
CloudProgress ==
    /\ last.op = "idle"
    /\ \E n \in 1..Len(cloud) :
          /\ ~IsNil(cloud[n].InstanceId)
          /\ StateOf(cloud[n]) \in {"pending", "stopping", "shutting-down"}
          /\ cloud' = SetState(cloud, n,
                               CASE StateOf(cloud[n]) = "pending" -> "running"
                                 [] StateOf(cloud[n]) = "stopping" -> "stopped"
                                 [] StateOf(cloud[n]) = "shutting-down" -> "terminated")
    /\ last' = Idle
    /\ UNCHANGED controllerID

CloudForget ==
    /\ last.op = "idle"
    /\ \E n \in 1..Len(cloud) :
          /\ ~IsNil(cloud[n].InstanceId)
          /\ StateOf(cloud[n]) = "terminated"
          /\ cloud' = [cloud EXCEPT ![n] = ZeroInstance]
    /\ last' = Idle
    /\ UNCHANGED controllerID

(* The process prints its result and exits; the host issues the next      *)
(* command to a fresh process.                                             *)
Exit ==
    /\ last.op \in {"create", "delete", "get", "list", "removeAll", "stop", "start"}
    /\ last' = Idle
    /\ UNCHANGED <<cloud, controllerID>>

Next ==
    \/ CreateInstance
    \/ DeleteInstance
    \/ GetInstanceOp
    \/ ListInstances
    \/ RemoveAllInstances
    \/ Stop
    \/ Start
    \/ CloudProgress
    \/ CloudForget
    \/ Exit

Spec == Init /\ [][Next]_vars

----------------------------------------------------------------------------
(* C1: for every record with an instance ID and a state, the conversion    *)
(* succeeds and maps running, shutting-down and stopping to "running",     *)
(* stopped and terminated to "stopped", and every other state name         *)
(* (pending, unrecognised names) to "unknown".                             *)
C1_StateMapping ==
    (last.op = "convert" /\ ~IsNil(last.arg.InstanceId) /\ ~IsNil(last.arg.State)) =>
        LET name == Deref(last.arg.State).Name IN
        /\ last.err = NoErr
        /\ last.val.ProviderID = Deref(last.arg.InstanceId)
        /\ name \in {"running", "shutting-down", "stopping"} => last.val.Status = "running"
        /\ name \in {"stopped", "terminated"} => last.val.Status = "stopped"
        /\ name \notin {"running", "shutting-down", "stopping", "stopped", "terminated"}
              => last.val.Status = "unknown"

C1_Witness ==
    /\ last.op = "convert"
    /\ ~IsNil(last.arg.InstanceId)
    /\ ~IsNil(last.arg.State)
    /\ Deref(last.arg.State).Name = "stopping"
    /\ last.val.Status = "running"

----------------------------------------------------------------------------
(* Reading the observations *)

CallsOf(api) == {i \in 1..Len(last.calls) : last.calls[i].api = api}
CountCalls(api) == Cardinality(CallsOf(api))

ByName == ~HasPrefix(last.arg, IdPrefix)
LookupResult == last.aux[1]
LookupFailed == IsErr(LookupResult.err)

(* The instances the name lookup's DescribeInstances call returned. *)
DescribeAnswered == Len(last.calls) >= 1 /\ last.calls[1].api = "DescribeInstances"
                    /\ ~IsErr(last.calls[1].err)
Described == Flatten(last.calls[1].out)

----------------------------------------------------------------------------
(* C2: Start looks the instance up first.  A failed lookup gives an error  *)
(* and no StartInstances call; a looked-up state of "stopping" gives an    *)
(* error naming the identifier and "stopping" and no StartInstances call;  *)
(* a looked-up state of pending, running or stopped gives exactly one      *)
(* StartInstances call.                                                    *)
C2_StartPrecondition ==
    last.op = "start" =>
        /\ Len(last.calls) >= 1 /\ last.calls[1].api = "DescribeInstances"
        /\ LookupFailed => (IsErr(last.err) /\ CountCalls("StartInstances") = 0)
        /\ (~LookupFailed /\ StateOf(LookupResult.val) = "stopping") =>
              /\ IsErr(last.err)
              /\ MsgHasArg(last.err, last.arg)
              /\ MsgHasText(last.err, "stopping")
              /\ CountCalls("StartInstances") = 0
        /\ (~LookupFailed /\ StateOf(LookupResult.val) \in {"pending", "running", "stopped"}) =>
              CountCalls("StartInstances") = 1

C2_Witness ==
    /\ last.op = "start"
    /\ ~LookupFailed
    /\ StateOf(LookupResult.val) = "stopping"
    /\ IsErr(last.err)
    /\ CountCalls("StartInstances") = 0

(* C3: DeleteInstance by a name (no "i-" prefix) whose lookup finds no     *)
(* matching instance returns success and issues no TerminateInstances.     *)
C3_DeleteUnknownName ==
    (last.op = "delete" /\ ByName /\ DescribeAnswered /\ Len(Described) = 0) =>
        (last.err = NoErr /\ CountCalls("TerminateInstances") = 0)

C3_Witness ==
    /\ last.op = "delete" /\ ByName /\ DescribeAnswered /\ Len(Described) = 0
    /\ last.err = NoErr
    /\ Len(last.calls) = 1

(* C4: whenever a cloud API call issued by a facade operation fails with   *)
(* an error other than instance-not-found, the operation returns an error  *)
(* of the same kind: never success, never NotFound.                        *)
C4_ApiFailureKeepsKind ==
    \A i \in 1..Len(last.calls) :
        last.calls[i].err.kind = "ApiError" => last.err.kind = "ApiError"

(* C5: a name lookup by get, delete or start filters on the                *)
(* GARM_CONTROLLER_ID tag being equal to the provider's controller ID, so  *)
(* it returns exactly the live instances with that controller ID and that  *)
(* name.                                                                   *)
OwnLiveNamed(inst, name) ==
    /\ ~IsNil(inst.InstanceId)
    /\ TagValue(inst, "GARM_CONTROLLER_ID") = Ptr(controllerID)
    /\ TagValue(inst, "Name") = Ptr(name)
    /\ InSeq(StateOf(inst), LiveStateNames)

C5_LookupFiltersOnController ==
    (last.op \in {"get", "delete", "start"} /\ ByName /\ Len(last.calls) >= 1) =>
        /\ last.calls[1].input.Filters[1] = Filter("tag:GARM_CONTROLLER_ID", <<controllerID>>)
        /\ (last.op = "get" /\ DescribeAnswered) =>
              \A n \in 1..Len(cloud) :
                  OwnLiveNamed(cloud[n], last.arg) <=> InSeq(cloud[n], Described)

(* C6: a name lookup with zero matches yields NotFound, with one match     *)
(* that instance, with several matches an error that is not NotFound and   *)
(* no instance; DeleteInstance by a name with several matches returns an   *)
(* error and issues no TerminateInstances.                                 *)
C6_FindOneInstanceCounts ==
    (last.op \in {"get", "delete", "start"} /\ ByName /\ DescribeAnswered) =>
        /\ Len(Described) = 0 =>
              (ErrIsNotFound(LookupResult.err) /\ LookupResult.val = ZeroInstance)
        /\ Len(Described) = 1 =>
              (LookupResult.err = NoErr /\ LookupResult.val = Described[1])
        /\ Len(Described) > 1 =>
              /\ IsErr(LookupResult.err) /\ ~ErrIsNotFound(LookupResult.err)
              /\ LookupResult.val = ZeroInstance
              /\ last.op = "delete" =>
                    (IsErr(last.err) /\ CountCalls("TerminateInstances") = 0)

C6_Witness ==
    /\ last.op = "delete" /\ ByName /\ DescribeAnswered
    /\ Len(Described) > 1
    /\ IsErr(last.err)
    /\ CountCalls("TerminateInstances") = 0

(* C7: a successful CreateInstance returns the ID of the launched          *)
(* instance, the Name, OSType and OSArch of the bootstrap parameters, and  *)
(* status "running" whatever the state of the cloud instance (pending).    *)
C7_CreateResult ==
    (last.op = "create" /\ last.err = NoErr) =>
        /\ CountCalls("RunInstances") = 1
        /\ last.val.ProviderID = Deref(last.calls[Len(last.calls)].out[1].InstanceId)
        /\ last.val.ProviderID = Deref(cloud[Len(cloud)].InstanceId)
        /\ last.val.Name = last.arg.bp.Name
        /\ last.val.OSType = last.arg.bp.OSType
        /\ last.val.OSArch = last.arg.bp.OSArch
        /\ last.val.Status = "running"

C7_Witness ==
    /\ last.op = "create" /\ last.err = NoErr
    /\ StateOf(cloud[Len(cloud)]) = "pending"
    /\ last.val.Status = "running"
    /\ last.val.Name = NameB

(* C8: the RunInstances request of CreateInstance is the only one, asks    *)
(* for exactly one instance, carries the image and flavor of the bootstrap *)
(* parameters, the subnet of the extra specs when they set one and of the  *)
(* provider config otherwise, and the five tags Name, GARM_POOL_ID,        *)
(* OSType, OSArch, GARM_CONTROLLER_ID.                                     *)
ExtraSets(key) ==
    last.arg.bp.ExtraSpecs.kind = "object" /\ key \in DOMAIN last.arg.bp.ExtraSpecs.obj
ExtraValue(key) == last.arg.bp.ExtraSpecs.obj[key].v

C8_LaunchRequest ==
    last.op = "create" =>
        /\ CountCalls("RunInstances") <= 1
        /\ last.err = NoErr => CountCalls("RunInstances") = 1
        /\ \A i \in CallsOf("RunInstances") :
              LET in == last.calls[i].input IN
              /\ in.MinCount = Ptr(1) /\ in.MaxCount = Ptr(1)
              /\ in.ImageId = Ptr(last.arg.bp.Image)
              /\ in.InstanceType = last.arg.bp.Flavor
              /\ in.SubnetId = IF ExtraSets("subnet_id")
                               THEN Ptr(ExtraValue("subnet_id")) ELSE Ptr(Cfg.SubnetID)
              /\ Len(in.TagSpecifications) = 1
              /\ in.TagSpecifications[1].Tags =
                    <<Tag("Name", last.arg.bp.Name),
                      Tag("GARM_POOL_ID", last.arg.bp.PoolID),
                      Tag("OSType", last.arg.bp.OSType),
                      Tag("OSArch", last.arg.bp.OSArch),
                      Tag("GARM_CONTROLLER_ID", controllerID)>>

C8_Witness ==
    /\ last.op = "create"
    /\ CountCalls("RunInstances") = 1
    /\ ExtraSets("subnet_id")
    /\ last.calls[1].input.SubnetId = Ptr(SubnetExtra)
    /\ controllerID # ""

(* C9: the launch request carries the security group IDs and the boot      *)
(* volume parameters (type, size, iops, throughput, delete on              *)
(* termination) that the extra specs set.                                  *)
C9_LaunchCarriesGroupsAndVolume ==
    last.op = "create" =>
        \A i \in CallsOf("RunInstances") :
            LET in == last.calls[i].input
                spec == Deref(last.aux)
            IN /\ Len(spec.SecurityGroupIds) > 0 => in.SecurityGroupIds = spec.SecurityGroupIds
               /\ (spec.VolumeType # "" \/ ~IsNil(spec.VolumeSize) \/ ~IsNil(spec.Iops)
                      \/ ~IsNil(spec.Throughput)) =>
                     /\ Len(in.BlockDeviceMappings) = 1
                     /\ in.BlockDeviceMappings[1].Ebs.DeleteOnTermination = Ptr(TRUE)
                     /\ in.BlockDeviceMappings[1].Ebs.VolumeType = spec.VolumeType
                     /\ in.BlockDeviceMappings[1].Ebs.VolumeSize = spec.VolumeSize
                     /\ in.BlockDeviceMappings[1].Ebs.Iops = spec.Iops
                     /\ in.BlockDeviceMappings[1].Ebs.Throughput = spec.Throughput

(* C10: when building the runner spec fails, CreateInstance returns an     *)
(* empty ProviderInstance and an error without any cloud API call; when    *)
(* the launch call fails, it returns an empty ProviderInstance and an      *)
(* error and issues no further call.                                       *)
C10_FailedCreate ==
    last.op = "create" =>
        LET sp == GetRunnerSpecFromBootstrapParams(Cfg, last.arg.bp, controllerID,
                                                   last.arg.toolsFound)
        IN /\ IsErr(sp.err) =>
                 (last.val = ZeroProviderInstance /\ IsErr(last.err) /\ last.calls = <<>>)
           /\ \A i \in CallsOf("RunInstances") :
                 IsErr(last.calls[i].err) =>
                    (last.val = ZeroProviderInstance /\ IsErr(last.err) /\ Len(last.calls) = 1)

C10_Witness ==
    /\ last.op = "create"
    /\ CountCalls("RunInstances") = 1
    /\ IsErr(last.calls[1].err)
    /\ last.val = ZeroProviderInstance
    /\ IsErr(last.err)

C10_WitnessSpecFails ==
    /\ last.op = "create"
    /\ last.arg.toolsFound
    /\ IsErr(GetRunnerSpecFromBootstrapParams(Cfg, last.arg.bp, controllerID, TRUE).err)
    /\ last.calls = <<>>

----------------------------------------------------------------------------
(* C11: DeleteInstance of an instance that an earlier DeleteInstance has   *)
(* terminated (the cloud shows it shutting-down or terminated, or has      *)
(* forgotten it) returns success, by ID and by name, unless a cloud API    *)
(* call of this very operation fails for a reason of its own; a            *)
(* TerminateInstances answer InvalidInstanceID.NotFound counts as success. *)
GoneStateNames == {"shutting-down", "terminated"}

(* In this model an instance leaves the live states only through a         *)
(* successful TerminateInstances, and is forgotten only after that.        *)
AlreadyDeleted(c, ident) ==
    IF HasPrefix(ident, IdPrefix)
    THEN \E n \in 1..Len(c) :
            /\ ident = InstanceIdOf(n)
            /\ (c[n] = ZeroInstance \/ StateOf(c[n]) \in GoneStateNames)
    ELSE /\ \E n \in 1..Len(c) :
               /\ ~IsNil(c[n].InstanceId)
               /\ TagValue(c[n], "Name") = Ptr(ident)
               /\ StateOf(c[n]) \in GoneStateNames
         /\ \A n \in 1..Len(c) :
               (~IsNil(c[n].InstanceId) /\ TagValue(c[n], "Name") = Ptr(ident))
                  => StateOf(c[n]) \in GoneStateNames

C11_DeleteIdempotent ==
    [][ (/\ last'.op = "delete"
         /\ AlreadyDeleted(cloud, last'.arg)
         /\ \A i \in 1..Len(last'.calls) : last'.calls[i].err.kind # "ApiError")
        => last'.err = NoErr ]_vars

C11_Witness ==
    /\ last.op = "delete"
    /\ last.err = NoErr
    /\ \E n \in 1..Len(cloud) : last.arg = InstanceIdOf(n) /\ cloud[n] = ZeroInstance
    /\ CountCalls("TerminateInstances") = 1
    /\ last.calls[1].err = ApiNotFound

(* C12: every StartInstances call that Start issues carries the native ID  *)
(* of the instance its lookup returned, also when Start was given a name.  *)
C12_StartByNativeID ==
    (last.op = "start" /\ ~LookupFailed /\ ~IsNil(LookupResult.val.InstanceId)) =>
        \A i \in CallsOf("StartInstances") :
            last.calls[i].input.InstanceIds = <<Deref(LookupResult.val.InstanceId)>>

(* C13: GetInstance issues one DescribeInstances call, by instance ID when *)
(* the identifier starts with "i-" and by Name tag otherwise.  A found     *)
(* record with an ID gives that ID, the record's Name, OSType and OSArch   *)
(* tags and the mapped status; a found record without an ID gives the      *)
(* empty ProviderInstance and no error; no match gives a NotFound error    *)
(* and never a successful empty result.                                    *)
TagOf(inst, key) == Deref(TagValue(inst, key))

C13_GetInstance ==
    last.op = "get" =>
        /\ Len(last.calls) = 1 /\ last.calls[1].api = "DescribeInstances"
        /\ IF ByName
           THEN /\ last.calls[1].input.InstanceIds = <<>>
                /\ InSeq(Filter("tag:Name", <<last.arg>>), last.calls[1].input.Filters)
           ELSE last.calls[1].input.InstanceIds = <<last.arg>>
        /\ (~LookupFailed /\ ~IsNil(LookupResult.val.InstanceId)) =>
              /\ last.err = NoErr
              /\ last.val = [ProviderID |-> Deref(LookupResult.val.InstanceId),
                             Name |-> TagOf(LookupResult.val, "Name"),
                             OSType |-> TagOf(LookupResult.val, "OSType"),
                             OSArch |-> TagOf(LookupResult.val, "OSArch"),
                             Status |-> StatusOfState(StateOf(LookupResult.val))]
        /\ (~LookupFailed /\ IsNil(LookupResult.val.InstanceId)) =>
              (last.err = NoErr /\ last.val = ZeroProviderInstance)
        /\ (DescribeAnswered /\ Len(Described) = 0) =>
              (ErrIsNotFound(last.err) /\ last.val = ZeroProviderInstance)
        /\ (LookupFailed /\ ~ByName) =>
              (last.err.kind = LookupResult.err.kind /\ last.val = ZeroProviderInstance)
        /\ (LookupFailed /\ ByName) =>
              (IsErr(last.err) /\ last.val = ZeroProviderInstance)

(* get by name finds nothing; get finds a record that lacks its ID *)
C13_Witness ==
    /\ last.op = "get" /\ ByName
    /\ DescribeAnswered /\ Len(Described) = 0
    /\ ErrIsNotFound(last.err)
    /\ \E n \in 1..Len(cloud) : ~IsNil(cloud[n].InstanceId)

C13_WitnessNoId ==
    /\ last.op = "get"
    /\ ~LookupFailed /\ IsNil(LookupResult.val.InstanceId)
    /\ last.err = NoErr /\ last.val = ZeroProviderInstance

C13_WitnessFound ==
    /\ last.op = "get" /\ ByName
    /\ ~LookupFailed
    /\ last.val.ProviderID = InstanceIdOf(1)
    /\ last.val.Name = last.arg
    /\ last.val.Status = "unknown"

(* C14: ListInstances(poolID) whose DescribeInstances call is answered     *)
(* returns, in cloud order, exactly one ProviderInstance for each cloud    *)
(* instance whose GARM_POOL_ID tag is poolID and whose state is pending,   *)
(* running, stopping or stopped; when a record of the reply lacks its      *)
(* instance ID the call returns an error and the empty list.               *)
InPoolAndLive(inst) ==
    /\ ~IsNil(inst.InstanceId)
    /\ TagValue(inst, "GARM_POOL_ID") = Ptr(last.arg)
    /\ StateOf(inst) \in {"pending", "running", "stopping", "stopped"}

PoolMembers == SelectSeq(cloud, InPoolAndLive)

ReplyLacksId == \E i \in 1..Len(Described) : IsNil(Described[i].InstanceId)

C14_ListInstances ==
    (last.op = "list" /\ DescribeAnswered) =>
        /\ Len(last.calls) = 1
        /\ ReplyLacksId => (IsErr(last.err) /\ last.val = <<>>)
        /\ ~ReplyLacksId =>
              /\ last.err = NoErr
              /\ Len(last.val) = Len(PoolMembers)
              /\ \A i \in 1..Len(PoolMembers) :
                    last.val[i] = [ProviderID |-> Deref(PoolMembers[i].InstanceId),
                                   Name |-> TagOf(PoolMembers[i], "Name"),
                                   OSType |-> TagOf(PoolMembers[i], "OSType"),
                                   OSArch |-> TagOf(PoolMembers[i], "OSArch"),
                                   Status |-> StatusOfState(StateOf(PoolMembers[i]))]

(* one instance of the pool is listed, another instance is left out *)
C14_Witness ==
    /\ last.op = "list" /\ DescribeAnswered /\ ~ReplyLacksId
    /\ Len(last.val) = 1
    /\ \A n \in 1..Len(cloud) : ~IsNil(cloud[n].InstanceId)
    /\ Len(cloud) = 2
    /\ TagValue(cloud[1], "GARM_POOL_ID") = TagValue(cloud[2], "GARM_POOL_ID")

C14_WitnessOrder ==
    /\ last.op = "list" /\ last.err = NoErr
    /\ Len(last.val) = 2
    /\ last.val[1].ProviderID = InstanceIdOf(1)
    /\ last.val[2].ProviderID = InstanceIdOf(2)

C14_WitnessNoPartialList ==
    /\ last.op = "list" /\ DescribeAnswered
    /\ Len(Described) = 2
    /\ ~IsNil(Described[1].InstanceId) /\ IsNil(Described[2].InstanceId)
    /\ IsErr(last.err) /\ last.val = <<>>

(* C15: for a record with an instance ID and no state information (the    *)
(* State pointer of the reply is nil) the conversion returns without       *)
(* error or crash, and the status of its result is "unknown".              *)
C15_NoStateIsUnknown ==
    (last.op = "convert" /\ ~IsNil(last.arg.InstanceId) /\ IsNil(last.arg.State)) =>
        /\ last.err = NoErr
        /\ last.val.ProviderID = Deref(last.arg.InstanceId)
        /\ last.val.Status = "unknown"

----------------------------------------------------------------------------
(* Reading a Validate observation *)

Validated == last.op = "validate"
Identified == last.arg.Region # "" /\ last.arg.BootstrapParams.Name # EmptyStr
IopsSet == ~IsNil(last.arg.Iops)
ThroughputSet == ~IsNil(last.arg.Throughput)
VolumeSizeSet == ~IsNil(last.arg.VolumeSize)
IopsValue == Deref(last.arg.Iops)
VolumeSizeValue == Deref(last.arg.VolumeSize)

IopsOnlyErr == PlainErr("EBS iops is only valid for volume types io1, io2 and gp3")
ThroughputOnlyErr == PlainErr("EBS throughput is only valid for volume type gp3")
SizeOnlyErr ==
    PlainErr("EBS volume size is only valid for volume types io1, io2, gp2, gp3, st1, sc1 and standard")

NamesRange(err, text, vt, lo, hi) ==
    err = Errorf("plain", <<Lit(text), ArgS(vt), Lit("must be between"),
                            ArgSet(lo), Lit("and"), ArgSet(hi)>>)

IsIopsErr == last.err = IopsOnlyErr \/ MsgHasText(last.err, "EBS iops for volume type")
IsSizeErr == last.err = SizeOnlyErr \/ MsgHasText(last.err, "EBS volume size for volume type")

(* the checks that come before the one a claim is about let the spec pass *)
IopsPasses ==
    \/ ~IopsSet
    \/ last.arg.VolumeType \in {"io1"} /\ IopsValue \in 100..64000
    \/ last.arg.VolumeType \in {"io2"} /\ IopsValue \in 100..256000
    \/ last.arg.VolumeType \in {"gp3"} /\ IopsValue \in 3000..16000
ThroughputPasses == ~ThroughputSet \/ last.arg.VolumeType = "gp3"

(* C16: with region and name set and iops set, Validate returns the "iops *)
(* is only valid" error for every volume type other than io1, io2, gp3     *)
(* (the unset type included); for io1, io2, gp3 it returns an iops error   *)
(* exactly when iops is outside [100, 64000], [100, 256000],               *)
(* [3000, 16000], and that error names the type and the range.             *)
C16_IopsRanges ==
    (Validated /\ Identified /\ IopsSet) =>
        LET vt == last.arg.VolumeType
            Ranged(lo, hi) ==
                IF IopsValue \in lo..hi
                THEN ~IsIopsErr
                ELSE NamesRange(last.err, "EBS iops for volume type", vt, lo, hi)
        IN /\ vt \notin {"io1", "io2", "gp3"} => last.err = IopsOnlyErr
           /\ vt = "io1" => Ranged(100, 64000)
           /\ vt = "io2" => Ranged(100, 256000)
           /\ vt = "gp3" => Ranged(3000, 16000)
           /\ (IopsPasses /\ ~ThroughputSet /\ ~VolumeSizeSet) => last.err = NoErr

C16_Witness ==
    /\ Validated /\ Identified /\ IopsSet
    /\ last.arg.VolumeType = "gp3" /\ IopsValue = 16000
    /\ last.err = NoErr

C16_WitnessRejected ==
    /\ Validated /\ Identified /\ IopsSet
    /\ last.arg.VolumeType = "io2" /\ IopsValue = 256001
    /\ IsIopsErr

(* C17: Validate returns an error for every spec with volume type io1 or   *)
(* io2 and no iops; when throughput and volume size are unset too (and     *)
(* region and name are set) the error is "the parameter iops must be       *)
(* specified for <type> volumes".  With any other volume type and no       *)
(* iops, throughput or volume size, Validate returns no error.             *)
C17_IopsRequired ==
    (Validated /\ ~IopsSet) =>
        LET vt == last.arg.VolumeType IN
        /\ vt \in {"io1", "io2"} =>
              /\ IsErr(last.err)
              /\ (Identified /\ ~ThroughputSet /\ ~VolumeSizeSet) =>
                    last.err = Errorf("plain", <<Lit("the parameter iops must be specified for"),
                                                 ArgS(vt), Lit("volumes")>>)
        /\ (vt \notin {"io1", "io2"} /\ Identified /\ ~ThroughputSet /\ ~VolumeSizeSet) =>
              last.err = NoErr
        /\ vt \notin {"io1", "io2"} =>
              ~MsgHasText(last.err, "the parameter iops must be specified for")

C17_Witness ==
    /\ Validated /\ Identified /\ ~IopsSet
    /\ last.arg.VolumeType = "io2"
    /\ VolumeSizeSet /\ VolumeSizeValue = 4
    /\ MsgHasText(last.err, "the parameter iops must be specified for")

(* C18: with region and name set, throughput set, a volume type other than *)
(* gp3 (the unset type included) and the iops check passed, Validate       *)
(* returns the "throughput is only valid for volume type gp3" error.  With *)
(* gp3, no throughput value makes Validate fail; the extra-specs schema    *)
(* rejects exactly the throughput values outside [125, 1000].              *)
C18_ThroughputOnlyGp3 ==
    (Validated /\ Identified /\ ThroughputSet) =>
        LET thr == Deref(last.arg.Throughput) IN
        /\ (last.arg.VolumeType # "gp3" /\ IopsPasses) => last.err = ThroughputOnlyErr
        /\ last.arg.VolumeType = "gp3" =>
              /\ last.err # ThroughputOnlyErr
              /\ (IopsPasses /\ (~VolumeSizeSet \/ VolumeSizeValue \in 1..16384)) =>
                    last.err = NoErr
        /\ IsErr(jsonSchemaValidation(JObject([throughput |-> JInt(thr)])))
              <=> thr \notin 125..1000

C18_Witness ==
    /\ Validated /\ Identified /\ ThroughputSet
    /\ last.arg.VolumeType = "gp3"
    /\ Deref(last.arg.Throughput) = 1001
    /\ last.err = NoErr

C18_WitnessRejected ==
    /\ Validated /\ Identified /\ ThroughputSet
    /\ last.arg.VolumeType = "" /\ ~IopsSet
    /\ last.err = ThroughputOnlyErr

C19_WitnessRejected ==
    /\ Validated /\ Identified /\ VolumeSizeSet /\ IopsPasses /\ ThroughputPasses
    /\ last.arg.VolumeType = "standard" /\ VolumeSizeValue = 1025
    /\ IsSizeErr

(* C20: with region and name set, the volume type, iops and throughput     *)
(* unset and a volume size in [1, 16384], Validate returns no error.       *)
C20_UnsetTypeIsGp2 ==
    (/\ Validated /\ Identified
     /\ last.arg.VolumeType = "" /\ ~IopsSet /\ ~ThroughputSet
     /\ VolumeSizeSet /\ VolumeSizeValue \in 1..16384)
    => last.err = NoErr

(* C21: with region and name set, volume type io2, iops in range and no    *)
(* throughput, Validate returns no error for every volume size in          *)
(* [4, 65536].                                                             *)
C21_Io2SizeUpTo65536 ==
    (/\ Validated /\ Identified
     /\ last.arg.VolumeType = "io2" /\ IopsSet /\ IopsValue \in 100..256000
     /\ ~ThroughputSet
     /\ VolumeSizeSet /\ VolumeSizeValue \in 4..65536)
    => last.err = NoErr

(* C22: Validate reports the first failing check only, in the order        *)
(* region, bootstrap name, iops, throughput, volume size, iops required:   *)
(* an empty region gives "missing region" whatever else is wrong; then an  *)
(* empty name gives "missing bootstrap params"; then a failing iops check  *)
(* gives an iops error also when the throughput is invalid; a              *)
(* volume-size error is only reported when the iops and throughput checks  *)
(* passed, and the iops-required error only when the volume-size check     *)
(* passed as well.                                                         *)
IsIopsRequiredErr == MsgHasText(last.err, "the parameter iops must be specified for")

C22_FirstFailingCheck ==
    Validated =>
        /\ last.arg.Region = "" => last.err = PlainErr("missing region")
        /\ (last.arg.Region # "" /\ last.arg.BootstrapParams.Name = EmptyStr) =>
              last.err = PlainErr("missing bootstrap params")
        /\ (Identified /\ ~IopsPasses) => IsIopsErr
        /\ (Identified /\ IopsPasses /\ ~ThroughputPasses) => last.err = ThroughputOnlyErr
        /\ IsSizeErr => (Identified /\ IopsPasses /\ ThroughputPasses)
        /\ IsIopsRequiredErr =>
              /\ Identified /\ ~IopsSet /\ ThroughputPasses
              /\ VolumeSizeSet => VolumeSizeValue \in 4..16384
        /\ (Identified /\ IopsSet /\ ThroughputSet /\ last.arg.VolumeType = "") =>
              last.err = IopsOnlyErr

(* iops and throughput both set with no volume type, size out of range *)
C22_Witness ==
    /\ Validated /\ Identified
    /\ IopsSet /\ ThroughputSet /\ last.arg.VolumeType = ""
    /\ VolumeSizeSet /\ VolumeSizeValue = 0
    /\ last.err = IopsOnlyErr

----------------------------------------------------------------------------
(* C23: merging an ExtraSpecs with no field set leaves every field of the  *)
(* RunnerSpec as it was.                                                   *)
Merged == last.op = "merge"

C23_MergeEmpty ==
    (Merged /\ last.arg.extra = ZeroExtraSpecs) => last.val = last.arg.spec

C23_Witness ==
    /\ Merged
    /\ last.arg.extra = ZeroExtraSpecs
    /\ last.arg.spec.VolumeType = "io1"
    /\ last.val.VolumeType = "io1" /\ last.val.Iops = Ptr(100)

(* C24: after MergeExtraSpecs every field set in the ExtraSpecs has the    *)
(* ExtraSpecs value, every field absent from it has the RunnerSpec's old   *)
(* value, and the security group IDs and the extra packages, when the      *)
(* ExtraSpecs list is non-empty, are exactly the ExtraSpecs list.          *)
PointerFieldsMerged ==
    \A f \in {"SSHKeyName", "Iops", "Throughput", "VolumeSize"} :
        last.val[f] = IF IsNil(last.arg.extra[f]) THEN last.arg.spec[f] ELSE last.arg.extra[f]

FlagFieldsMerged ==
    \A f \in {"DisableUpdates", "EnableBootDebug"} :
        last.val[f] = IF IsNil(last.arg.extra[f]) THEN last.arg.spec[f]
                      ELSE Deref(last.arg.extra[f])

SubnetAndTypeMerged ==
    /\ last.val.SubnetID =
          IF IsNil(last.arg.extra.SubnetID) \/ Deref(last.arg.extra.SubnetID) = EmptyStr
          THEN last.arg.spec.SubnetID ELSE Deref(last.arg.extra.SubnetID)
    /\ last.val.VolumeType =
          IF last.arg.extra.VolumeType = "" THEN last.arg.spec.VolumeType
          ELSE last.arg.extra.VolumeType

ListMerged(f) ==
    last.val[f] = IF Len(last.arg.extra[f]) = 0 THEN last.arg.spec[f] ELSE last.arg.extra[f]

OtherFieldsKept ==
    \A f \in {"Region", "Tools", "BootstrapParams", "ControllerID"} :
        last.val[f] = last.arg.spec[f]

C24_MergeOverwritesEverySetField ==
    Merged =>
        /\ PointerFieldsMerged /\ FlagFieldsMerged /\ SubnetAndTypeMerged /\ OtherFieldsKept
        /\ ListMerged("SecurityGroupIds")
        /\ ListMerged("ExtraPackages")

(* C24 as amended: the same for every field but the extra packages, which  *)
(* MergeExtraSpecs leaves as they were whatever the ExtraSpecs carry.      *)
C24_MergeFrame ==
    Merged =>
        /\ PointerFieldsMerged /\ FlagFieldsMerged /\ SubnetAndTypeMerged /\ OtherFieldsKept
        /\ ListMerged("SecurityGroupIds")
        /\ last.val.ExtraPackages = last.arg.spec.ExtraPackages

C24_Witness ==
    /\ Merged
    /\ last.arg.spec.SecurityGroupIds = <<"sg-0">>
    /\ last.arg.extra.SecurityGroupIds = <<"sg-1", "sg-2">>
    /\ last.val.SecurityGroupIds = <<"sg-1", "sg-2">>
    /\ last.arg.extra.ExtraPackages = <<"package1", "package2">>
    /\ last.val.ExtraPackages = <<"package0">>
    /\ IsNil(last.arg.extra.Iops) /\ last.val.Iops = Ptr(100)

----------------------------------------------------------------------------
(* C25: extra-specs parsing accepts a JSON object only if every key is     *)
(* recognised, every value has the JSON type declared for its key,         *)
(* subnet_id matches subnet- followed by 17 hex digits, volume_type is one *)
(* of the seven types and throughput is in [125, 1000]; a subnet_id of the *)
(* wrong type is reported as a type mismatch and not as a pattern error,   *)
(* an unknown key as an additional property.  A rejection returns no       *)
(* ExtraSpecs; an acceptance returns one in which every field whose key is *)
(* absent from the JSON is unset.                                          *)
Parsed == last.op = "parse"
Doc == last.arg.ExtraSpecs
DocHas(key) == Doc.kind = "object" /\ key \in DOMAIN Doc.obj

DeclaredType ==
    [subnet_id |-> "string", ssh_key_name |-> "string", iops |-> "integer",
     throughput |-> "integer", volume_size |-> "integer", volume_type |-> "string",
     security_group_ids |-> "array", disable_updates |-> "boolean",
     enable_boot_debug |-> "boolean", extra_packages |-> "array"]

WellFormed ==
    /\ Doc.kind = "object"
    /\ \A k \in DOMAIN Doc.obj :
          /\ k \in DOMAIN DeclaredType
          /\ Doc.obj[k].type = DeclaredType[k]
          /\ k = "subnet_id" =>
                /\ Len(Doc.obj[k].v) = 24
                /\ SubSeq(Doc.obj[k].v, 1, 7) = <<"s", "u", "b", "n", "e", "t", "-">>
                /\ \A i \in 8..24 : Doc.obj[k].v[i] \in HexDigits
          /\ k = "volume_type" =>
                Doc.obj[k].v \in {"gp2", "gp3", "io1", "io2", "st1", "sc1", "standard"}
          /\ k = "throughput" => Doc.obj[k].v \in 125..1000
          /\ k = "security_group_ids" =>
                \A i \in 1..Len(Doc.obj[k].v) : Doc.obj[k].v[i].type = "string"

ReportedErrors ==
    UNION {last.err.msg[i].v : i \in {j \in 1..Len(last.err.msg) : last.err.msg[j].t = "set"}}

FieldOfKey ==
    [subnet_id |-> "SubnetID", ssh_key_name |-> "SSHKeyName", iops |-> "Iops",
     throughput |-> "Throughput", volume_size |-> "VolumeSize",
     disable_updates |-> "DisableUpdates", enable_boot_debug |-> "EnableBootDebug"]

C25_ExtraSpecsSchema ==
    Parsed =>
        /\ last.err = NoErr => WellFormed
        /\ (WellFormed /\ \A k \in DOMAIN Doc.obj : ~Doc.obj[k].wide) => last.err = NoErr
        /\ IsErr(last.err) => IsNil(last.val)
        /\ last.err = NoErr =>
              /\ ~IsNil(last.val)
              /\ \A k \in DOMAIN FieldOfKey :
                    ~DocHas(k) => IsNil(Deref(last.val)[FieldOfKey[k]])
              /\ ~DocHas("volume_type") => Deref(last.val).VolumeType = ""
              /\ ~DocHas("security_group_ids") => Deref(last.val).SecurityGroupIds = <<>>
              /\ ~DocHas("extra_packages") => Deref(last.val).ExtraPackages = <<>>
        /\ (DocHas("subnet_id") /\ Doc.obj["subnet_id"].type # "string") =>
              ("invalid_type" \in ReportedErrors /\ "pattern" \notin ReportedErrors)
        /\ DocHas("unknown_key") => "additional_property_not_allowed" \in ReportedErrors

C25_Witness ==
    /\ Parsed
    /\ DocHas("subnet_id") /\ Doc.obj["subnet_id"].type = "integer"
    /\ IsNil(last.val)
    /\ ReportedErrors = {"invalid_type"}

C25_WitnessAccepted ==
    /\ Parsed /\ last.err = NoErr
    /\ DocHas("throughput") /\ Doc.obj["throughput"].v = 1000
    /\ ~DocHas("iops") /\ IsNil(Deref(last.val).Iops)
    /\ Deref(last.val).Throughput = Ptr(1000)

----------------------------------------------------------------------------
(* The instances that CreateInstance launched for this provider under the  *)
(* given name and that are still pending, running, stopping or stopped.    *)
(* Every instance of the cloud was launched by CreateInstance, which tags  *)
(* it with the provider's controller ID and the requested name.            *)
OwnLive(name) == {n \in 1..Len(cloud) : OwnLiveNamed(cloud[n], name)}

NoCallFailed == \A i \in 1..Len(last.calls) : last.calls[i].err.kind # "ApiError"

(* C26: for a provider with a non-empty controller ID, a DeleteInstance by *)
(* name that returns success leaves no instance that the provider launched *)
(* under that name in a live state: every such instance was named in a     *)
(* TerminateInstances call.                                                *)
C26_DeleteByNameTerminates ==
    (last.op = "delete" /\ ByName /\ controllerID # "" /\ last.err = NoErr) =>
        OwnLive(last.arg) = {}

(* C27: for a provider with a non-empty controller ID, GetInstance by the  *)
(* name of the only live instance the provider launched under that name,   *)
(* with the lookup answered and every record carrying its ID, returns that *)
(* instance's ID and the Name, OSType and OSArch given to CreateInstance - *)
(* the values of the tags that CreateInstance wrote.                       *)
C27_CreateGetRoundTrip ==
    (/\ last.op = "get" /\ ByName /\ controllerID # ""
     /\ NoCallFailed
     /\ Cardinality(OwnLive(last.arg)) = 1
     /\ \A n \in 1..Len(cloud) :
           TagValue(cloud[n], "Name") = Ptr(last.arg) => n \in OwnLive(last.arg)
     /\ \A i \in 1..Len(Described) : ~IsNil(Described[i].InstanceId))
    => LET n == CHOOSE n \in OwnLive(last.arg) : TRUE IN
       /\ last.err = NoErr
       /\ last.val.ProviderID = InstanceIdOf(n)
       /\ last.val.Name = last.arg
       /\ last.val.OSType = TagOf(cloud[n], "OSType")
       /\ last.val.OSArch = TagOf(cloud[n], "OSArch")

----------------------------------------------------------------------------
(* C28: the cloud API calls of each facade operation, failed calls         *)
(* included: create at most one RunInstances and nothing else; get and     *)
(* list exactly one DescribeInstances; stop exactly one StopInstances for  *)
(* the given identifier; start one DescribeInstances, then at most one     *)
(* StartInstances; delete by ID exactly one TerminateInstances for that    *)
(* ID; delete by name one DescribeInstances, then at most one              *)
(* TerminateInstances; removeAll no call and success.                      *)
ApisCalled == [i \in 1..Len(last.calls) |-> last.calls[i].api]

C28_CallSequences ==
    /\ last.op = "create" => ApisCalled \in {<<>>, <<"RunInstances">>}
    /\ last.op \in {"get", "list"} => ApisCalled = <<"DescribeInstances">>
    /\ last.op = "stop" =>
          /\ ApisCalled = <<"StopInstances">>
          /\ last.calls[1].input.InstanceIds = <<last.arg>>
    /\ last.op = "start" =>
          ApisCalled \in {<<"DescribeInstances">>, <<"DescribeInstances", "StartInstances">>}
    /\ (last.op = "delete" /\ ~ByName) =>
          /\ ApisCalled = <<"TerminateInstances">>
          /\ last.calls[1].input.InstanceIds = <<last.arg>>
    /\ (last.op = "delete" /\ ByName) =>
          ApisCalled \in {<<"DescribeInstances">>, <<"DescribeInstances", "TerminateInstances">>}
    /\ last.op = "removeAll" => (ApisCalled = <<>> /\ last.err = NoErr)

(* a stop of an instance that is not running is refused by the cloud after *)
(* the one call; a delete by name whose terminate fails is not retried     *)
C28_Witness ==
    /\ last.op = "stop"
    /\ ApisCalled = <<"StopInstances">>
    /\ last.calls[1].err = ApiIncorrectState
    /\ IsErr(last.err)

C28_WitnessNoRetry ==
    /\ last.op = "delete" /\ ByName
    /\ ApisCalled = <<"DescribeInstances", "TerminateInstances">>
    /\ last.calls[2].err = ApiError
    /\ IsErr(last.err)

----------------------------------------------------------------------------
(* C29: building the runner spec for CreateInstance stops at the first     *)
(* failing step: a failed tool lookup is the reported error also when the  *)
(* extra specs are invalid; invalid extra specs are the reported error     *)
(* also when the merged spec would not validate; a validation error is     *)
(* only reported when both earlier steps passed.  A failure returns no     *)
(* RunnerSpec; a returned RunnerSpec passes Validate, and RunInstances is  *)
(* only called with a RunnerSpec that was returned.                        *)
ExtraSpecsBad == IsErr(newExtraSpecsFromBootstrapData(last.arg.bp).err)

C29_RunnerSpecSteps ==
    last.op = "create" =>
        /\ ~last.arg.toolsFound =>
              /\ MsgHasText(last.err, "failed to get tools")
              /\ ~MsgHasText(last.err, "error loading extra specs")
        /\ (last.arg.toolsFound /\ ExtraSpecsBad) =>
              /\ MsgHasText(last.err, "error loading extra specs")
              /\ ~MsgHasText(last.err, "error validating spec")
        /\ MsgHasText(last.err, "error validating spec") =>
              (last.arg.toolsFound /\ ~ExtraSpecsBad)
        /\ (last.arg.toolsFound /\ ~ExtraSpecsBad /\ last.arg.bp.Name = EmptyStr) =>
              MsgHasText(last.err, "error validating spec")
        /\ (~last.arg.toolsFound \/ ExtraSpecsBad
               \/ MsgHasText(last.err, "error validating spec")) =>
              (IsNil(last.aux) /\ IsErr(last.err) /\ last.calls = <<>>)
        /\ ~IsNil(last.aux) =>
              /\ Validate(Deref(last.aux)) = NoErr
              /\ Deref(last.aux).Region # ""
              /\ Deref(last.aux).BootstrapParams.Name # EmptyStr
              /\ Deref(last.aux).VolumeType \in {"io1", "io2"} => ~IsNil(Deref(last.aux).Iops)
        /\ CountCalls("RunInstances") > 0 => ~IsNil(last.aux)

(* tool lookup fails and the extra specs are invalid too *)
C29_Witness ==
    /\ last.op = "create"
    /\ ~last.arg.toolsFound /\ ExtraSpecsBad
    /\ MsgHasText(last.err, "failed to get tools")
    /\ IsNil(last.aux)

(* invalid extra specs and a bootstrap name that would not validate *)
C29_WitnessSchemaFirst ==
    /\ last.op = "create"
    /\ last.arg.toolsFound /\ ExtraSpecsBad /\ last.arg.bp.Name = EmptyStr
    /\ MsgHasText(last.err, "error loading extra specs")

C29_WitnessValidation ==
    /\ last.op = "create"
    /\ last.arg.toolsFound /\ ~ExtraSpecsBad
    /\ last.arg.bp.Name # EmptyStr
    /\ MsgHasText(last.err, "error validating spec")
    /\ last.calls = <<>>

----------------------------------------------------------------------------
(* C30: an instance in state shutting-down or terminated is invisible: a   *)
(* GetInstance by its ID, or by a name that only such instances carry,     *)
(* whose DescribeInstances call was answered returns NotFound and no       *)
(* instance; no get result and no list element carries the ID of such an   *)
(* instance; and every instance named in a successful TerminateInstances   *)
(* call is in one of these states (or forgotten) right after the call, so  *)
(* it is absent from every later list.                                     *)
IsGoneAt(n) == cloud[n] = ZeroInstance \/ StateOf(cloud[n]) \in GoneStateNames

GoneIds == {InstanceIdOf(n) : n \in {m \in 1..Len(cloud) : IsGoneAt(m)}}

C30_GoneIsInvisible ==
    /\ (last.op = "get" /\ DescribeAnswered) =>
          /\ (~ByName /\ last.arg \in GoneIds) =>
                (ErrIsNotFound(last.err) /\ last.val = ZeroProviderInstance)
          /\ (ByName /\ AlreadyDeleted(cloud, last.arg)) =>
                (ErrIsNotFound(last.err) /\ last.val = ZeroProviderInstance)
          /\ last.val.ProviderID \notin GoneIds
    /\ (last.op = "list" /\ DescribeAnswered) =>
          \A i \in 1..Len(last.val) : last.val[i].ProviderID \notin GoneIds
    /\ last.op = "delete" =>
          \A i \in 1..Len(last.calls) :
             (last.calls[i].api = "TerminateInstances" /\ ~IsErr(last.calls[i].err)) =>
                \A k \in 1..Len(last.calls[i].input.InstanceIds) :
                   last.calls[i].input.InstanceIds[k] \in GoneIds

(* get by the ID of an instance that was terminated but is still known to  *)
(* the cloud                                                               *)
C30_Witness ==
    /\ last.op = "get" /\ DescribeAnswered /\ ~ByName
    /\ \E n \in 1..Len(cloud) :
          /\ last.arg = InstanceIdOf(n)
          /\ cloud[n] # ZeroInstance
          /\ StateOf(cloud[n]) \in GoneStateNames
    /\ ErrIsNotFound(last.err)

(* a list of a pool one of whose instances is shutting down or terminated  *)
C30_WitnessList ==
    /\ last.op = "list" /\ DescribeAnswered /\ last.err = NoErr
    /\ \E n \in 1..Len(cloud) :
          /\ cloud[n] # ZeroInstance
          /\ StateOf(cloud[n]) \in GoneStateNames
          /\ TagValue(cloud[n], "GARM_POOL_ID") = Ptr(last.arg)
    /\ Len(last.val) = 1

(* get by a name that only a terminated instance carries *)
C30_WitnessName ==
    /\ last.op = "get" /\ DescribeAnswered /\ ByName
    /\ AlreadyDeleted(cloud, last.arg)
    /\ ErrIsNotFound(last.err)

====
